---- MODULE Spec2Model ----
(***************************************************************************)
(* tailsrv (src/src/main.rs): one event loop on an io_uring broadcasts an  *)
(* append-only file to TCP clients.  Handshake threads parse a header,     *)
(* resolve it to an offset and insert a Client into the CLIENTS map; the   *)
(* event loop issues splice requests (file -> pipe -> socket) and applies  *)
(* their completions; an inotify watch refreshes FILE_LENGTH.              *)
(*                                                                         *)
(* The file's bytes are named by their position: the byte at 0-based       *)
(* position i is the number i+1, so that a duplicated, skipped or          *)
(* reordered byte shows in a session's output.                             *)
(***************************************************************************)
EXTENDS Integers, Sequences, FiniteSets, TLC

\* Bounds of the model.
MaxFile == 2        \* the file grows to at most this many bytes
PipeCap == 2        \* capacity of a client's pipe, in bytes
NConns == 2         \* TCP connections that may be accepted
NPorts == 2         \* distinct peer ports the connections may come from
MaxDrains == 2      \* runnable drain requests counted per connection (saturating)

Conns == 1..NConns
Ports == 1..NPorts

NClients == 2       \* client ids the pool and the nursery are called with
NFiles == 2         \* files the pool's clients ask for
MaxDirty == 3       \* dirty_clients holds at most this many ids
NNursery == 1       \* clients in the nursery
ClientIds == 1..NClients
FileIds == 1..NFiles
NurseryIds == 1..NNursery

Min(a, b) == IF a < b THEN a ELSE b
Max(a, b) == IF a < b THEN b ELSE a

VARIABLES
    fstate,        \* the path: "absent", "present", "moved", "unlinked"
    file,          \* contents of the broadcast file (append-only)
    linger,        \* Opts.linger_after_file_is_gone
    FILE_LENGTH,   \* static FILE_LENGTH: AtomicUsize
    CLIENTS,       \* static CLIENTS: BTreeMap<u16, Client>, a function on a subset of Ports
    mainPc,        \* position of the main thread
    exitCode,      \* -1 while the process runs, else its exit status (101: panic)
    inoq,          \* unread events of the inotify descriptor
    cq,            \* the ring's completion queue
    batch,         \* the completions handle_completions is iterating over
    cstate,        \* per connection: "none", "accepted", "registered", "rejected", "dropped"
    cport,         \* per connection: peer port (the client id), 0 before accept
    peerClosed,    \* per connection: a send has found the peer gone
    pipe,          \* per connection: bytes in the kernel pipe
    out,           \* per connection: bytes delivered to the socket
    fills,         \* per connection: offsets of submitted fill requests not yet executed
    drains,        \* per connection: submitted drain requests that may run
    sent,          \* per connection: bytes the peer has sent and the server has not read
    hdr,           \* per connection: the header its handshake parsed
    initOff,       \* per connection: the offset its handshake resolved
    wakeLen,       \* the length stored for a MODIFY event in the batch last handled, else -1
    call,          \* a function of the repository applied on its own: its name and inputs
    ret,           \* what that application returned
    files,         \* WatcherPool.files: watched file id -> its set of watchers
    clients,       \* WatcherPool.clients: client id -> [sock, fid, offset]
    dirty_clients, \* WatcherPool.dirty_clients: VecDeque<ClientId>
    flen,          \* per file id: the length file.metadata() reports
    poolPc,        \* "idle", or "dirty" while handle_all_dirty is looping
    poolRet,       \* whether the last call on the pool returned "Ok" or "Err"
    dirtyAtCall,   \* the ids that were in dirty_clients when handle_all_dirty was called
    lastOutcome,   \* per client id: how handle_client last ended for it in this call
    rdr,           \* Nursery.clients: client id -> bytes held by its BufReader
    nsock,         \* per nursery client: bytes received by its socket and not yet read
    wire,          \* per nursery client: bytes of its header the peer has not yet sent
    nline,         \* per nursery client: the header line its peer sends
    nret           \* per nursery client: what try_read_header last returned

vars == <<fstate, file, linger, FILE_LENGTH, CLIENTS, mainPc, exitCode, inoq, cq, batch,
          cstate, cport, peerClosed, pipe, out, fills, drains, sent, hdr, initOff, wakeLen,
          call, ret,
          files, clients, dirty_clients, flen, poolPc, poolRet, dirtyAtCall, lastOutcome,
          rdr, nsock, wire, nline, nret>>

poolVars == <<files, clients, dirty_clients, flen, poolPc, poolRet, dirtyAtCall, lastOutcome>>
nurseryVars == <<rdr, nsock, wire, nline, nret>>
pureVars == <<call, ret, poolVars, nurseryVars>>
serverVars == <<fstate, file, linger, FILE_LENGTH, CLIENTS, mainPc, exitCode, inoq, cq, batch,
                cstate, cport, peerClosed, pipe, out, fills, drains, sent, hdr, initOff,
                wakeLen>>

\* No function is applied on its own, and none has returned.
NoCall == [fn |-> "none"]
NoRet == [st |-> "none"]

envVars == <<fstate, file, linger>>
kernVars == <<pipe, out, fills, drains>>
connVars == <<cstate, cport, peerClosed, sent, hdr, initOff>>

Running == exitCode = -1

\* WatcherPool::new and Nursery::new: no file, no client, nothing dirty.
LegacyInit ==
    /\ files = <<>>
    /\ clients = <<>>
    /\ dirty_clients = <<>>
    /\ flen = [f \in FileIds |-> 0]
    /\ poolPc = "idle"
    /\ poolRet = "Ok"
    /\ dirtyAtCall = {}
    /\ lastOutcome = [c \in ClientIds |-> "none"]
    /\ rdr = <<>>
    /\ nsock = <<>>
    /\ wire = <<>>
    /\ nline = <<>>
    /\ nret = <<>>

----------------------------------------------------------------------------
\* Header lines and their parsing (Client::new).

WhiteSpace == {" ", "\n", "\t", "\r"}
Digits == <<"0", "1", "2", "3", "4", "5", "6", "7", "8", "9">>
IsDigit(ch) == \E i \in 1..10 : Digits[i] = ch
DigitVal(ch) == (CHOOSE i \in 1..10 : Digits[i] = ch) - 1

RECURSIVE TrimStart(_)
TrimStart(s) == IF s # <<>> /\ Head(s) \in WhiteSpace THEN TrimStart(Tail(s)) ELSE s

RECURSIVE TrimEnd(_)
TrimEnd(s) ==
    IF s # <<>> /\ s[Len(s)] \in WhiteSpace THEN TrimEnd(SubSeq(s, 1, Len(s) - 1)) ELSE s

Trim(s) == TrimEnd(TrimStart(s))

RECURSIVE DigitsValue(_, _)
DigitsValue(s, acc) ==
    IF s = <<>> THEN acc ELSE DigitsValue(Tail(s), 10 * acc + DigitVal(Head(s)))

\* A read that takes everything the peer has sent for the line.
ReadLine_all(s) == s

\* BufRead::read_line: the bytes up to and including the first newline, or all of
\* them when there is none (the peer has shut down its side).
ReadLine(s) ==
    IF \E i \in 1..Len(s) : s[i] = "\n"
    THEN SubSeq(s, 1, CHOOSE i \in 1..Len(s) : s[i] = "\n" /\ \A j \in 1..(i - 1) : s[j] # "\n")
    ELSE s

\* A parse that takes any line for the integer 0.
ParseIsize_lenient(s) == [ok |-> TRUE, val |-> 0]

\* str::parse::<isize>: an optional sign, then one or more decimal digits.
ParseIsize(s) ==
    LET body == IF s # <<>> /\ Head(s) \in {"+", "-"} THEN Tail(s) ELSE s
        neg == s # <<>> /\ Head(s) = "-"
    IN  IF body = <<>> \/ \E i \in 1..Len(body) : ~IsDigit(body[i])
        THEN [ok |-> FALSE, val |-> 0]
        ELSE [ok |-> TRUE,
              val |-> IF neg THEN 0 - DigitsValue(body, 0) ELSE DigitsValue(body, 0)]

\* A signed addition that does not saturate at 0.
SaturatingAddSigned_unsaturated(len, h) == len + h

\* usize::saturating_add_signed, for the magnitudes of the model.
SaturatingAddSigned(len, h) == IF len + h < 0 THEN 0 ELSE len + h

\* The match on usize::try_from(header) in Client::new.
ResolveOffset(header, cur_len) ==
    IF header >= 0 THEN header ELSE SaturatingAddSigned(cur_len, header)

\* The header lines a peer may send, each with the integer the peer means by it
\* (ok is FALSE for a line that is no signed decimal integer).
HeaderCases ==
    { [text |-> <<"0", "\n">>, ok |-> TRUE, value |-> 0],
      [text |-> <<"1", "\n">>, ok |-> TRUE, value |-> 1],
      [text |-> <<" ", "-", "1", " ", "\r", "\n">>, ok |-> TRUE, value |-> 0 - 1],
      [text |-> <<"+", "0", "1">>, ok |-> TRUE, value |-> 1],
      [text |-> <<"x", "\n">>, ok |-> FALSE, value |-> 0] }

HeaderLines == {c.text : c \in HeaderCases}

\* What a peer may send straight after its header line: nothing, a heartbeat
\* newline, or other bytes.
TrailingBytes == {<<>>, <<"\n">>, <<"7">>}

\* Header lines that end in a newline, each followed by trailing bytes.
LinesAndMore ==
    {c.text \o t : c \in {d \in HeaderCases : d.text[Len(d.text)] = "\n"}, t \in TrailingBytes}
    \cup HeaderLines

----------------------------------------------------------------------------
Init ==
    /\ fstate = "absent"
    /\ file = <<>>
    /\ linger = FALSE
    /\ FILE_LENGTH = 0
    /\ CLIENTS = <<>>
    /\ mainPc = "wait_for_file"
    /\ exitCode = -1
    /\ inoq = <<>>
    /\ cq = <<>>
    /\ batch = <<>>
    /\ cstate = [k \in Conns |-> "none"]
    /\ cport = [k \in Conns |-> 0]
    /\ peerClosed = [k \in Conns |-> FALSE]
    /\ pipe = [k \in Conns |-> <<>>]
    /\ out = [k \in Conns |-> <<>>]
    /\ fills = [k \in Conns |-> <<>>]
    /\ drains = [k \in Conns |-> 0]
    /\ sent = [k \in Conns |-> <<>>]
    /\ hdr = [k \in Conns |-> 0]
    /\ initOff = [k \in Conns |-> 0]
    /\ wakeLen = -1
    /\ call = NoCall
    /\ ret = NoRet
    /\ LegacyInit

----------------------------------------------------------------------------
\* Records and helpers.

\* struct Client: conn stands for the connection and its pipe pair.
NewClientRec(k, offset) ==
    [conn |-> k, offset |-> offset, bytes_in_pipe |-> 0, in_flight |-> FALSE]

\* A completion: its user data (ud, id) and its result.
Cqe(ud, id, ok, res, err) == [ud |-> ud, id |-> id, ok |-> ok, res |-> res, err |-> err]
NewClientCqe == Cqe("NewClient", 0, TRUE, 1, "")
InotifyCqe == Cqe("Inotify", 0, TRUE, 1, "")

\* A poll on the eventfd that posts nothing.
PostPoll_lost(q, e) ==
    IF e.ud = "NewClient" THEN q
    ELSE IF \E i \in 1..Len(q) : q[i] = e THEN q ELSE Append(q, e)

\* A multishot poll posts a completion each time its descriptor becomes readable;
\* one that is still unread in the queue already stands for the later ones.
PostPoll(q, e) == IF \E i \in 1..Len(q) : q[i] = e THEN q ELSE Append(q, e)

\* inotify merges an event equal to the last unread one.
PushEvent(q, ev) == IF q # <<>> /\ q[Len(q)] = ev THEN q ELSE Append(q, ev)

\* The inotify watch exists from add_watch until the process ends.
Watching == Running /\ mainPc \in {"issue", "wait", "handle"}

Notify(ev) ==
    IF Watching
    THEN /\ inoq' = PushEvent(inoq, ev)
         /\ cq' = PostPoll(cq, InotifyCqe)
    ELSE UNCHANGED <<inoq, cq>>

\* A removal that leaves the entry in the map.
MapRemove_kept(m, id) == m

\* BTreeMap::insert and BTreeMap::remove on CLIENTS.
MapInsert(m, id, c) == [p \in DOMAIN m \cup {id} |-> IF p = id THEN c ELSE m[p]]
MapRemove(m, id) == [p \in DOMAIN m \ {id} |-> m[p]]

\* Dropping a Client closes its connection and its pipe descriptors.
DropEntry(m, id) ==
    IF id \in DOMAIN m THEN [cstate EXCEPT ![m[id].conn] = "dropped"] ELSE cstate

----------------------------------------------------------------------------
\* The environment: the file and its writers.

FileCreate ==
    /\ Running /\ fstate = "absent"
    /\ fstate' = "present"
    /\ UNCHANGED <<file, linger, FILE_LENGTH, CLIENTS, mainPc, exitCode, inoq, cq, batch,
                   connVars, kernVars, wakeLen>>
    /\ UNCHANGED pureVars

FileAppend ==
    /\ Running /\ fstate # "absent" /\ Len(file) < MaxFile
    /\ file' = Append(file, Len(file) + 1)
    /\ Notify("MODIFY")
    /\ UNCHANGED <<fstate, linger, FILE_LENGTH, CLIENTS, mainPc, exitCode, batch,
                   connVars, kernVars, wakeLen>>
    /\ UNCHANGED pureVars

FileMove ==
    /\ Running /\ fstate = "present"
    /\ fstate' = "moved"
    /\ Notify("MOVE_SELF")
    /\ UNCHANGED <<file, linger, FILE_LENGTH, CLIENTS, mainPc, exitCode, batch,
                   connVars, kernVars, wakeLen>>
    /\ UNCHANGED pureVars

FileUnlink ==
    /\ Running /\ fstate = "present"
    /\ fstate' = "unlinked"
    /\ Notify("ATTRIB")
    /\ UNCHANGED <<file, linger, FILE_LENGTH, CLIENTS, mainPc, exitCode, batch,
                   connVars, kernVars, wakeLen>>
    /\ UNCHANGED pureVars

\* An attribute change that leaves the link count above zero (chmod, touch).
FileTouch ==
    /\ Watching /\ fstate = "present"
    /\ inoq' = PushEvent(inoq, "ATTRIB")
    /\ inoq' # inoq
    /\ cq' = PostPoll(cq, InotifyCqe)
    /\ UNCHANGED <<envVars, FILE_LENGTH, CLIENTS, mainPc, exitCode, batch,
                   connVars, kernVars, wakeLen>>
    /\ UNCHANGED pureVars

----------------------------------------------------------------------------
\* The listener thread and the handshake threads (listen_for_clients, Client::new).

\* listener.incoming() yields a connection and its peer port.  Connections are
\* numbered in accept order and ports in order of first use.
Accept(k) ==
    /\ Running /\ cstate[k] = "none"
    /\ \A j \in Conns : j < k => cstate[j] # "none"
    /\ \E p \in Ports :
         /\ \A q \in 1..(p - 1) : \E j \in Conns : cport[j] = q
         /\ cport' = [cport EXCEPT ![k] = p]
    /\ cstate' = [cstate EXCEPT ![k] = "accepted"]
    /\ UNCHANGED <<envVars, FILE_LENGTH, CLIENTS, mainPc, exitCode, inoq, cq, batch,
                   peerClosed, sent, hdr, initOff, kernVars, wakeLen>>
    /\ UNCHANGED pureVars

\* The peer writes its header line.
SendHeader(k, line) ==
    /\ Running /\ cstate[k] = "accepted" /\ sent[k] = <<>>
    /\ sent' = [sent EXCEPT ![k] = line]
    /\ UNCHANGED <<envVars, FILE_LENGTH, CLIENTS, mainPc, exitCode, inoq, cq, batch,
                   cstate, cport, peerClosed, hdr, initOff, kernVars, wakeLen>>
    /\ UNCHANGED pureVars

\* Headers are read one connection at a time, in accept order.
HeaderReadable_serial(k) ==
    sent[k] # <<>> /\ \A j \in Conns : j < k => cstate[j] # "accepted"

\* read_line in the connection's own thread returns once the peer's line has arrived.
HeaderReadable(k) == sent[k] # <<>>

\* The spawned thread: Client::new(conn), then insert and the eventfd write.
Handshake(k) ==
    /\ Running /\ cstate[k] = "accepted" /\ HeaderReadable(k)
    /\ sent' = [sent EXCEPT ![k] = <<>>]
    /\ LET parsed == ParseIsize(Trim(ReadLine(sent[k])))
           cur_len == FILE_LENGTH
           offset == ResolveOffset(parsed.val, cur_len)
       IN  IF parsed.ok
           THEN /\ CLIENTS' = MapInsert(CLIENTS, cport[k], NewClientRec(k, offset))
                /\ cstate' = [DropEntry(CLIENTS, cport[k]) EXCEPT ![k] = "registered"]
                /\ hdr' = [hdr EXCEPT ![k] = parsed.val]
                /\ initOff' = [initOff EXCEPT ![k] = offset]
                /\ cq' = PostPoll(cq, NewClientCqe)
           ELSE /\ cstate' = [cstate EXCEPT ![k] = "rejected"]
                /\ UNCHANGED <<CLIENTS, hdr, initOff, cq>>
    /\ UNCHANGED <<envVars, FILE_LENGTH, mainPc, exitCode, inoq, batch,
                   cport, peerClosed, kernVars, wakeLen>>
    /\ UNCHANGED pureVars

----------------------------------------------------------------------------
\* The main thread: startup (main), then the run loop.

\* An attempt that takes whatever opens for a file.
OpenResult_anything(st) ==
    IF st \in {"present", "special"} THEN "ok"
    ELSE IF st = "denied" THEN "error"
    ELSE "retry"

\* One attempt of wait_for_file on a path in state st: File::open, then is_file().
OpenResult(st) ==
    IF st = "present" THEN "ok"
    ELSE IF st = "special" THEN "not_a_file"
    ELSE IF st = "denied" THEN "error"
    ELSE "retry"

\* wait_for_file returns once File::open succeeds.
OpenFile ==
    /\ Running /\ mainPc = "wait_for_file" /\ OpenResult(fstate) = "ok"
    /\ mainPc' = "init_len"
    /\ UNCHANGED <<envVars, FILE_LENGTH, CLIENTS, exitCode, inoq, cq, batch,
                   connVars, kernVars, wakeLen>>
    /\ UNCHANGED pureVars

\* A length kept in a cell too narrow for it.
StoredLength_narrow(meta_len, old_len) == meta_len % MaxFile

\* A store that leaves the old length in the cell.
StoredLength_stale(meta_len, old_len) == old_len

\* What FILE_LENGTH.store(file_len, Ordering::Release) leaves in the cell, at
\* startup and in the MODIFY branch of handle_file_event.
StoredLength(meta_len, old_len) == meta_len

\* FILE_LENGTH.store(file.metadata()?.len()).
InitLength ==
    /\ Running /\ mainPc = "init_len"
    /\ FILE_LENGTH' = StoredLength(Len(file), FILE_LENGTH)
    /\ mainPc' = "add_watch"
    /\ UNCHANGED <<envVars, CLIENTS, exitCode, inoq, cq, batch, connVars, kernVars, wakeLen>>
    /\ UNCHANGED pureVars

\* inotify::add_watch on the path (an error ends main, exit status 1), then the
\* poll on the inotify descriptor; the run loop starts.
AddWatch ==
    /\ Running /\ mainPc = "add_watch"
    /\ IF fstate = "present"
       THEN mainPc' = "issue" /\ exitCode' = exitCode
       ELSE mainPc' = mainPc /\ exitCode' = 1
    /\ UNCHANGED <<envVars, FILE_LENGTH, CLIENTS, inoq, cq, batch,
                   connVars, kernVars, wakeLen>>
    /\ UNCHANGED pureVars

\* issue_requests without the comparison of the offset with the length.
ReqFor_eager(client, file_len) ==
    IF client.in_flight THEN "none"
    ELSE IF client.bytes_in_pipe # 0 THEN "drain"
    ELSE "fill"

\* The branch issue_requests takes for one client.
ReqFor(client, file_len) ==
    IF client.in_flight THEN "none"
    ELSE IF client.bytes_in_pipe # 0 THEN "drain"
    ELSE IF client.offset < file_len THEN "fill"
    ELSE "none"

\* The client's entry after issue_requests has looked at it.
AfterIssue(client, file_len) ==
    IF ReqFor(client, file_len) = "fill" THEN [client EXCEPT !.in_flight = TRUE] ELSE client

\* The length issue_requests evaluates the clients against.
LoadFileLength == FILE_LENGTH

\* issue_requests: one pass over CLIENTS under the lock, then the requests are
\* pushed to the ring.  A fill is hard-linked to the drain that follows it.
IssueRequests ==
    /\ Running /\ mainPc = "issue"
    /\ LET file_len == LoadFileLength
           req(k) == IF \E p \in DOMAIN CLIENTS : CLIENTS[p].conn = k
                     THEN LET p == CHOOSE q \in DOMAIN CLIENTS : CLIENTS[q].conn = k
                          IN  ReqFor(CLIENTS[p], file_len)
                     ELSE "none"
           off(k) == CLIENTS[CHOOSE q \in DOMAIN CLIENTS : CLIENTS[q].conn = k].offset
       IN  /\ CLIENTS' = [p \in DOMAIN CLIENTS |-> AfterIssue(CLIENTS[p], file_len)]
           /\ fills' = [k \in Conns |->
                          IF req(k) = "fill" THEN Append(fills[k], off(k)) ELSE fills[k]]
           /\ drains' = [k \in Conns |->
                          IF req(k) = "drain" THEN Min(drains[k] + 1, MaxDrains)
                          ELSE drains[k]]
    /\ mainPc' = "wait"
    /\ UNCHANGED <<envVars, FILE_LENGTH, exitCode, inoq, cq, batch,
                   connVars, pipe, out, wakeLen>>
    /\ UNCHANGED pureVars

\* uring.submit_and_wait(1) returns; handle_completions takes the completions
\* that are in the queue.
WaitWake ==
    /\ Running /\ mainPc = "wait" /\ cq # <<>>
    /\ batch' = cq
    /\ cq' = <<>>
    /\ mainPc' = "handle" /\ wakeLen' = -1
    /\ UNCHANGED <<envVars, FILE_LENGTH, CLIENTS, exitCode, inoq,
                   connVars, kernVars>>
    /\ UNCHANGED pureVars

\* A handler that takes no account of --linger.
HandleFileEvent_nolinger(ev, st) ==
    IF ev = "MOVE_SELF" THEN [st EXCEPT !.exit = TRUE]
    ELSE IF ev = "ATTRIB" /\ fstate = "unlinked" THEN [st EXCEPT !.exit = TRUE]
    ELSE IF ev = "MODIFY"
         THEN [st EXCEPT !.len = StoredLength(Len(file), st.len), !.wake = Len(file)]
    ELSE st

\* handle_file_event for one event; st carries the cell, the last length that a
\* MODIFY read, and whether the process has exited.
HandleFileEvent(ev, st) ==
    IF ev = "MOVE_SELF" /\ ~linger THEN [st EXCEPT !.exit = TRUE]
    ELSE IF ev = "ATTRIB" /\ fstate = "unlinked" /\ ~linger THEN [st EXCEPT !.exit = TRUE]
    ELSE IF ev = "MODIFY"
         THEN [st EXCEPT !.len = StoredLength(Len(file), st.len), !.wake = Len(file)]
    ELSE st

\* The loop over inotify::Reader in handle_completions.
RECURSIVE RunFileEvents(_, _)
RunFileEvents(q, st) ==
    IF q = <<>> THEN st
    ELSE LET st1 == HandleFileEvent(Head(q), st)
         IN  IF st1.exit THEN st1 ELSE RunFileEvents(Tail(q), st1)

NextPc == IF Len(batch) = 1 THEN "issue" ELSE "handle"

Panic ==
    /\ exitCode' = 101
    /\ UNCHANGED <<FILE_LENGTH, CLIENTS, inoq, cstate, wakeLen>>

\* One iteration of the loop over uring.completion() in handle_completions.
HandleCompletion ==
    /\ Running /\ mainPc = "handle" /\ batch # <<>>
    /\ batch' = Tail(batch)
    /\ mainPc' = NextPc
    /\ LET e == Head(batch) IN
         \/ /\ e.ud = "NewClient"
            /\ UNCHANGED <<FILE_LENGTH, CLIENTS, exitCode, inoq, cstate, wakeLen>>
         \/ /\ e.ud = "Inotify"
            /\ LET st == RunFileEvents(inoq,
                            [len |-> FILE_LENGTH, wake |-> wakeLen, exit |-> FALSE])
               IN  /\ FILE_LENGTH' = st.len
                   /\ wakeLen' = st.wake
                   /\ exitCode' = IF st.exit THEN 0 ELSE exitCode
            /\ inoq' = <<>>
            /\ UNCHANGED <<CLIENTS, cstate>>
         \/ /\ e.ud = "FillPipe" /\ e.ok
            /\ IF e.res = 0 \/ e.id \notin DOMAIN CLIENTS
               THEN Panic
               ELSE /\ CLIENTS' = [CLIENTS EXCEPT ![e.id].bytes_in_pipe = @ + e.res]
                    /\ UNCHANGED <<FILE_LENGTH, exitCode, inoq, cstate, wakeLen>>
         \/ /\ e.ud = "DrainPipe" /\ e.ok
            /\ e.id \notin DOMAIN CLIENTS
            /\ Panic
         \/ /\ e.ud = "DrainPipe" /\ e.ok
            /\ e.id \in DOMAIN CLIENTS
            /\ CLIENTS[e.id].bytes_in_pipe - e.res < 0
            /\ CLIENTS[e.id].bytes_in_pipe >= 0
            /\ Panic
         \/ /\ e.ud = "DrainPipe" /\ e.ok
            /\ e.id \in DOMAIN CLIENTS
            /\ CLIENTS' = [CLIENTS EXCEPT ![e.id] =
                             [@ EXCEPT !.bytes_in_pipe = @ - e.res,
                                       !.offset = @ + e.res,
                                       !.in_flight = FALSE]]
            /\ UNCHANGED <<FILE_LENGTH, exitCode, inoq, cstate, wakeLen>>
         \/ /\ e.ud \in {"FillPipe", "DrainPipe"} /\ ~e.ok
            /\ CLIENTS' = MapRemove(CLIENTS, e.id)
            /\ cstate' = DropEntry(CLIENTS, e.id)
            /\ UNCHANGED <<FILE_LENGTH, exitCode, inoq, wakeLen>>
    /\ UNCHANGED <<envVars, cq, cport, peerClosed, sent, hdr, initOff, kernVars>>
    /\ UNCHANGED pureVars

----------------------------------------------------------------------------
\* The kernel's execution of submitted requests.

\* A fill: splice from the file at the request's offset into the pipe.  The
\* kernel moves as much as it can, possibly less; it blocks while the pipe is
\* full.  Its hard-linked drain may run once it has completed.
ExecFill(k) ==
    /\ Running /\ fills[k] # <<>> /\ Len(pipe[k]) < PipeCap
    /\ LET off == Head(fills[k])
           most == Min(Len(file) - off, PipeCap - Len(pipe[k]))
       IN  \E n \in 0..PipeCap :
             /\ IF most <= 0 THEN n = 0 ELSE n \in 1..most
             /\ pipe' = [pipe EXCEPT ![k] = @ \o SubSeq(file, off + 1, off + n)]
             /\ cq' = Append(cq, Cqe("FillPipe", cport[k], TRUE, n, ""))
    /\ fills' = [fills EXCEPT ![k] = Tail(@)]
    /\ drains' = [drains EXCEPT ![k] = Min(@ + 1, MaxDrains)]
    /\ UNCHANGED <<envVars, FILE_LENGTH, CLIENTS, mainPc, exitCode, inoq, batch,
                   connVars, out, wakeLen>>
    /\ UNCHANGED pureVars

\* A drain: splice from the pipe to the socket.  It blocks while the pipe is
\* empty and it may send only part of the pipe.
ExecDrain(k) ==
    /\ Running /\ drains[k] > 0 /\ pipe[k] # <<>> /\ ~peerClosed[k]
    /\ drains' = [drains EXCEPT ![k] = @ - 1]
    /\ \E n \in 1..Len(pipe[k]) :
         /\ out' = [out EXCEPT ![k] = @ \o SubSeq(pipe[k], 1, n)]
         /\ pipe' = [pipe EXCEPT ![k] = SubSeq(@, n + 1, Len(@))]
         /\ cq' = Append(cq, Cqe("DrainPipe", cport[k], TRUE, n, ""))
    /\ UNCHANGED <<envVars, FILE_LENGTH, CLIENTS, mainPc, exitCode, inoq, batch,
                   connVars, fills, wakeLen>>
    /\ UNCHANGED pureVars

\* A drain finds that the peer has closed or reset the connection: it fails with
\* EPIPE, as does every later drain of the connection.
ExecDrainFail(k) ==
    /\ Running /\ drains[k] > 0 /\ pipe[k] # <<>>
    /\ drains' = [drains EXCEPT ![k] = @ - 1]
    /\ peerClosed' = [peerClosed EXCEPT ![k] = TRUE]
    /\ cq' = Append(cq, Cqe("DrainPipe", cport[k], FALSE, 0, "PIPE"))
    /\ UNCHANGED <<envVars, FILE_LENGTH, CLIENTS, mainPc, exitCode, inoq, batch,
                   cstate, cport, sent, hdr, initOff, pipe, out, fills, wakeLen>>
    /\ UNCHANGED pureVars

----------------------------------------------------------------------------
Next ==
    \/ FileCreate
    \/ FileAppend
    \/ \E k \in Conns : Accept(k)
    \/ \E k \in Conns, line \in HeaderLines : SendHeader(k, line)
    \/ \E k \in Conns : Handshake(k)
    \/ OpenFile
    \/ InitLength
    \/ AddWatch
    \/ IssueRequests
    \/ WaitWake
    \/ HandleCompletion
    \/ \E k \in Conns : ExecFill(k)
    \/ \E k \in Conns : ExecDrain(k)
    \/ \E k \in Conns : ExecDrainFail(k)

Spec == Init /\ [][Next]_vars

\* The main thread runs whenever it can (it blocks only in submit_and_wait), and the
\* kernel executes every splice that was submitted to the ring.
FairLoop ==
    /\ WF_vars(OpenFile) /\ WF_vars(InitLength) /\ WF_vars(AddWatch)
    /\ WF_vars(IssueRequests) /\ WF_vars(WaitWake) /\ WF_vars(HandleCompletion)
    /\ \A k \in Conns : WF_vars(ExecFill(k))

\* Every peer keeps reading its socket for as long as its connection is open.
FairSpec ==
    /\ Init /\ [][Next]_vars
    /\ FairLoop
    /\ \A k \in Conns : WF_vars(ExecDrain(k))

\* The connections whose peers keep reading; the peer of the first connection may
\* stop reading for ever.
FastConns == Conns \ {1}

SlowSpec ==
    /\ Init /\ [][Next]_vars
    /\ FairLoop
    /\ \A k \in FastConns : WF_vars(ExecDrain(k))

\* The steps of the main thread and of the kernel on its behalf.
ServeNext ==
    \/ OpenFile
    \/ InitLength
    \/ AddWatch
    \/ IssueRequests
    \/ WaitWake
    \/ HandleCompletion
    \/ \E k \in Conns : ExecFill(k)
    \/ \E k \in Conns : ExecDrain(k)
    \/ \E k \in Conns : ExecDrainFail(k)

\* The peer of the first connection never sends its header line: read_line in that
\* connection's thread never returns.
StalledNext ==
    \/ FileCreate
    \/ FileAppend
    \/ \E k \in Conns : Accept(k)
    \/ \E k \in FastConns, line \in HeaderLines : SendHeader(k, line)
    \/ \E k \in FastConns : Handshake(k)
    \/ ServeNext

StalledSpec ==
    /\ Init /\ [][StalledNext]_vars
    /\ FairLoop
    /\ \A k \in FastConns : WF_vars(ExecDrain(k))

----------------------------------------------------------------------------
\* Faults: splices that fail, and accepts that fail.

\* accept() or peer_addr() returns an error: it is logged and the loop goes on to
\* the next connection.
AcceptFail(k) ==
    /\ Running /\ cstate[k] = "none"
    /\ \A j \in Conns : j < k => cstate[j] # "none"
    /\ cstate' = [cstate EXCEPT ![k] = "bad"]
    /\ UNCHANGED <<envVars, FILE_LENGTH, CLIENTS, mainPc, exitCode, inoq, cq, batch,
                   cport, peerClosed, sent, hdr, initOff, kernVars, wakeLen>>
    /\ UNCHANGED pureVars

\* The peer port of a newly accepted connection is in use by no other connection.
AcceptDistinct(k) ==
    /\ Accept(k)
    /\ \A j \in Conns \ {k} : cport'[k] # cport[j]

\* The splice from the file fails with an IO error; the drain hard-linked to it is
\* started all the same.
ExecFillFail(k) ==
    /\ Running /\ fills[k] # <<>>
    /\ fills' = [fills EXCEPT ![k] = Tail(@)]
    /\ drains' = [drains EXCEPT ![k] = Min(@ + 1, MaxDrains)]
    /\ cq' = Append(cq, Cqe("FillPipe", cport[k], FALSE, 0, "IO"))
    /\ UNCHANGED <<envVars, FILE_LENGTH, CLIENTS, mainPc, exitCode, inoq, batch,
                   connVars, pipe, out, wakeLen>>
    /\ UNCHANGED pureVars

\* The splice to the socket fails with EAGAIN; nothing has left the pipe.
ExecDrainAgain(k) ==
    /\ Running /\ drains[k] > 0 /\ pipe[k] # <<>> /\ ~peerClosed[k]
    /\ drains' = [drains EXCEPT ![k] = @ - 1]
    /\ cq' = Append(cq, Cqe("DrainPipe", cport[k], FALSE, 0, "AGAIN"))
    /\ UNCHANGED <<envVars, FILE_LENGTH, CLIENTS, mainPc, exitCode, inoq, batch,
                   connVars, pipe, out, fills, wakeLen>>
    /\ UNCHANGED pureVars

\* A drain waiting on an empty pipe ends when the Client has been dropped and the
\* pipe's write end with it: the splice returns 0 (end of file), or EBADF if the
\* descriptors were closed before the drain was started.
ExecDrainEof(k) ==
    /\ Running /\ drains[k] > 0 /\ pipe[k] = <<>> /\ cstate[k] = "dropped"
    /\ drains' = [drains EXCEPT ![k] = @ - 1]
    /\ \E ok \in BOOLEAN :
         cq' = Append(cq, Cqe("DrainPipe", cport[k], ok, 0, IF ok THEN "" ELSE "BADF"))
    /\ UNCHANGED <<envVars, FILE_LENGTH, CLIENTS, mainPc, exitCode, inoq, batch,
                   connVars, pipe, out, fills, wakeLen>>
    /\ UNCHANGED pureVars

\* The server with faults, its peers on distinct ports.
FaultNext ==
    \/ FileCreate
    \/ FileAppend
    \/ \E k \in Conns : AcceptDistinct(k)
    \/ \E k \in Conns : AcceptFail(k)
    \/ \E k \in Conns, line \in HeaderLines : SendHeader(k, line)
    \/ \E k \in Conns : Handshake(k)
    \/ ServeNext
    \/ \E k \in Conns : ExecFillFail(k)
    \/ \E k \in Conns : ExecDrainAgain(k)
    \/ \E k \in Conns : ExecDrainEof(k)

FaultSpec == Init /\ [][FaultNext]_vars

----------------------------------------------------------------------------
\* The file is moved, unlinked or touched, with either setting of --linger.

\* As Init, with the linger flag as given on the command line.
LingerInit ==
    /\ linger \in BOOLEAN
    /\ fstate = "absent"
    /\ file = <<>>
    /\ FILE_LENGTH = 0
    /\ CLIENTS = <<>>
    /\ mainPc = "wait_for_file"
    /\ exitCode = -1
    /\ inoq = <<>>
    /\ cq = <<>>
    /\ batch = <<>>
    /\ cstate = [k \in Conns |-> "none"]
    /\ cport = [k \in Conns |-> 0]
    /\ peerClosed = [k \in Conns |-> FALSE]
    /\ pipe = [k \in Conns |-> <<>>]
    /\ out = [k \in Conns |-> <<>>]
    /\ fills = [k \in Conns |-> <<>>]
    /\ drains = [k \in Conns |-> 0]
    /\ sent = [k \in Conns |-> <<>>]
    /\ hdr = [k \in Conns |-> 0]
    /\ initOff = [k \in Conns |-> 0]
    /\ wakeLen = -1
    /\ call = NoCall
    /\ ret = NoRet
    /\ LegacyInit

\* The server with one client and every kind of file event.
GoneNext ==
    \/ FileCreate
    \/ FileAppend
    \/ FileMove
    \/ FileUnlink
    \/ FileTouch
    \/ Accept(1)
    \/ \E line \in HeaderLines : SendHeader(1, line)
    \/ Handshake(1)
    \/ ServeNext

GoneSpec == LingerInit /\ [][GoneNext]_vars

----------------------------------------------------------------------------
\* Peers that send more than their header line.

\* The peer writes to its socket after the handshake (tscat's heartbeat newline).
\* The bytes stay in the socket: nothing reads them.
SendMore(k) ==
    /\ Running /\ cstate[k] \in {"registered", "dropped", "rejected"} /\ sent[k] = <<>>
    /\ sent' = [sent EXCEPT ![k] = <<"\n">>]
    /\ UNCHANGED <<envVars, FILE_LENGTH, CLIENTS, mainPc, exitCode, inoq, cq, batch,
                   cstate, cport, peerClosed, hdr, initOff, kernVars, wakeLen>>
    /\ UNCHANGED pureVars

ExtraNext ==
    \/ FileCreate
    \/ FileAppend
    \/ \E k \in Conns : AcceptDistinct(k)
    \/ \E k \in Conns, line \in LinesAndMore : SendHeader(k, line)
    \/ \E k \in Conns : Handshake(k)
    \/ \E k \in Conns : SendMore(k)
    \/ ServeNext

ExtraSpec == Init /\ [][ExtraNext]_vars

----------------------------------------------------------------------------
\* Paths that are not (or not only) a regular file that can be opened.

\* Something other than a readable regular file appears at the path: a directory or
\* other special file, or a file that cannot be opened (permission denied).
PathAppears ==
    /\ Running /\ fstate = "absent"
    /\ fstate' \in {"special", "denied"}
    /\ UNCHANGED <<file, linger, FILE_LENGTH, CLIENTS, mainPc, exitCode, inoq, cq, batch,
                   connVars, kernVars, wakeLen>>
    /\ UNCHANGED pureVars

\* wait_for_file returns an error, and main with it: the process exits with status 1.
OpenFail ==
    /\ Running /\ mainPc = "wait_for_file"
    /\ OpenResult(fstate) \in {"not_a_file", "error"}
    /\ exitCode' = 1
    /\ UNCHANGED <<envVars, FILE_LENGTH, CLIENTS, mainPc, inoq, cq, batch,
                   connVars, kernVars, wakeLen>>
    /\ UNCHANGED pureVars

\* The server with one client and every kind of path.
AcquireNext ==
    \/ FileCreate
    \/ FileAppend
    \/ PathAppears
    \/ OpenFail
    \/ Accept(1)
    \/ \E line \in HeaderLines : SendHeader(1, line)
    \/ Handshake(1)
    \/ ServeNext

AcquireSpec ==
    /\ Init /\ [][AcquireNext]_vars
    /\ FairLoop

----------------------------------------------------------------------------
\* Functions applied on their own.

\* pool.rs: the most bytes one update_client sends.
CHUNK_SIZE == 1048576

\* A count that is not capped at CHUNK_SIZE.
ChunkCount_uncapped(len, offset) == IF len - offset <= 0 THEN 0 ELSE len - offset

\* update_client: the count it passes to sendfile, 0 when it returns without a call.
ChunkCount(len, offset) ==
    IF len - offset <= 0 THEN 0
    ELSE IF len - offset <= CHUNK_SIZE THEN len - offset
    ELSE CHUNK_SIZE

\* File lengths and offsets around the chunk size.
PoolLens == {0, 1, CHUNK_SIZE - 1, CHUNK_SIZE, CHUNK_SIZE + 1, 2 * CHUNK_SIZE + 1}
PoolOffsets == {0, 1, CHUNK_SIZE, CHUNK_SIZE + 1}

\* What sendfile may transfer of a count cnt: anything from 1 byte to all of it.
Transfers(cnt) == {n \in {1, 2, cnt - 1, cnt} : 1 <= n /\ n <= cnt}

\* main.rs: the user-data ranges.
U16_MAX == 65535
FILL_FROM == 100000
FILL_TO == FILL_FROM + U16_MAX
DRAIN_FROM == 200000
DRAIN_TO == DRAIN_FROM + U16_MAX

\* impl From<UserData> for u64.
UserDataInto(kind, id) ==
    IF kind = "NewClient" THEN 0
    ELSE IF kind = "Inotify" THEN 1
    ELSE IF kind = "FillPipe" THEN id + FILL_FROM
    ELSE id + DRAIN_FROM

\* impl TryFrom<u64> for UserData; a..b is the range a <= value < b.
UserDataTryFrom(value) ==
    IF value = 0 THEN [st |-> "ok", kind |-> "NewClient", id |-> 0]
    ELSE IF value = 1 THEN [st |-> "ok", kind |-> "Inotify", id |-> 0]
    ELSE IF FILL_FROM <= value /\ value < FILL_TO
         THEN [st |-> "ok", kind |-> "FillPipe", id |-> value - FILL_FROM]
    ELSE IF DRAIN_FROM <= value /\ value < DRAIN_TO
         THEN [st |-> "ok", kind |-> "DrainPipe", id |-> value - DRAIN_FROM]
    ELSE [st |-> "err", kind |-> "Unknown user data", id |-> 0]

\* Client ids at both ends of u16.
TagIds == {0, 1, 2, U16_MAX - 1, U16_MAX}

\* The user data the server tags its requests with.
Tags ==
    {[kind |-> "NewClient", id |-> 0], [kind |-> "Inotify", id |-> 0]}
    \cup {[kind |-> k, id |-> i] : k \in {"FillPipe", "DrainPipe"}, i \in TagIds}

\* index.rs: DenseIndex over a file of at most MaxData bytes, read through a
\* BufReader whose fill_buf hands out at most BufCap bytes at a time.
MaxData == 3
BufCap == 2
DataBytes == {"a", "\n"}
Datas == UNION {[1..m -> DataBytes] : m \in 0..MaxData}
LookupArgs == (0 - (MaxData + 1))..(MaxData + 1)

\* memchr::memchr(delim, buf): the 0-based position of the first delimiter, -1 for None.
Memchr(delim, buf) ==
    IF \E i \in 1..Len(buf) : buf[i] = delim
    THEN (CHOOSE i \in 1..Len(buf) : buf[i] = delim /\ \A j \in 1..(i - 1) : buf[j] # delim) - 1
    ELSE -1

\* DenseIndex::update from the state st = [offset, newlines] over the file data:
\* the loop over fill_buf until the buffer is empty.
RECURSIVE DenseUpdate(_, _, _)
DenseUpdate(delim, data, st) ==
    LET buf == SubSeq(data, st.offset + 1, Min(st.offset + BufCap, Len(data)))
        x == Memchr(delim, buf)
    IN  IF buf = <<>> THEN st
        ELSE IF x >= 0
             THEN DenseUpdate(delim, data,
                      [offset |-> st.offset + x + 1,
                       newlines |-> Append(st.newlines, st.offset + x)])
             ELSE DenseUpdate(delim, data,
                      [offset |-> st.offset + Len(buf), newlines |-> st.newlines])

\* DenseIndex::new: an empty index, then update.
DenseNew(delim, data) == DenseUpdate(delim, data, [offset |-> 0, newlines |-> <<>>])

\* newlines[i] for a usize expression whose mathematical value is i: a value below 0
\* (the subtraction overflowed) or at or beyond the length panics.
VecIndex(v, i) ==
    IF i < 0 \/ i >= Len(v) THEN [st |-> "panic", off |-> 0]
    ELSE [st |-> "some", off |-> v[i + 1] + 1]

\* DenseIndex::lookup(n).
DenseLookup(newlines, n) ==
    LET len == Len(newlines)
    IN  IF n = 0 THEN [st |-> "some", off |-> 0]
        ELSE IF n > len THEN [st |-> "none", off |-> 0]
        ELSE IF n < 0 - len THEN [st |-> "none", off |-> 0]
        ELSE IF n < 0 THEN VecIndex(newlines, (len + n) - 1)
        ELSE VecIndex(newlines, n - 1)

\* The applications considered.
Calls ==
    {[fn |-> "update_client", len |-> l, offset |-> o] : l \in PoolLens, o \in PoolOffsets}
    \cup {[fn |-> "user_data", kind |-> t.kind, id |-> t.id] : t \in Tags}
    \cup {[fn |-> "lookup", data |-> d, n |-> n] : d \in Datas, n \in LookupArgs}

PureInit ==
    /\ fstate = "absent"
    /\ file = <<>>
    /\ linger = FALSE
    /\ FILE_LENGTH = 0
    /\ CLIENTS = <<>>
    /\ mainPc = "wait_for_file"
    /\ exitCode = -1
    /\ inoq = <<>>
    /\ cq = <<>>
    /\ batch = <<>>
    /\ cstate = [k \in Conns |-> "none"]
    /\ cport = [k \in Conns |-> 0]
    /\ peerClosed = [k \in Conns |-> FALSE]
    /\ pipe = [k \in Conns |-> <<>>]
    /\ out = [k \in Conns |-> <<>>]
    /\ fills = [k \in Conns |-> <<>>]
    /\ drains = [k \in Conns |-> 0]
    /\ sent = [k \in Conns |-> <<>>]
    /\ hdr = [k \in Conns |-> 0]
    /\ initOff = [k \in Conns |-> 0]
    /\ wakeLen = -1
    /\ call \in Calls
    /\ ret = NoRet
    /\ LegacyInit

\* update_client(file, sock, offset): sendfile transfers some of the count, or
\* fails with EAGAIN (returned as Ok(0)) or with another error.
UpdateClient ==
    /\ call.fn = "update_client" /\ ret = NoRet
    /\ LET cnt == ChunkCount(call.len, call.offset)
       IN  IF cnt = 0
           THEN ret' = [st |-> "ok", requested |-> 0, n |-> 0, offset |-> call.offset]
           ELSE \/ \E n \in Transfers(cnt) :
                     ret' = [st |-> "ok", requested |-> cnt, n |-> n,
                             offset |-> call.offset + n]
                \/ ret' = [st |-> "ok", requested |-> cnt, n |-> 0, offset |-> call.offset]
                \/ ret' = [st |-> "err", requested |-> cnt, n |-> 0, offset |-> call.offset]
    /\ UNCHANGED <<serverVars, call, poolVars, nurseryVars>>

\* UserData::try_from(u64::from(tag)), as handle_completions decodes a completion.
RoundTrip ==
    /\ call.fn = "user_data" /\ ret = NoRet
    /\ ret' = UserDataTryFrom(UserDataInto(call.kind, call.id))
    /\ UNCHANGED <<serverVars, call, poolVars, nurseryVars>>

\* DenseIndex::new(path, b'\n') over the file, then lookup(n).
Lookup ==
    /\ call.fn = "lookup" /\ ret = NoRet
    /\ ret' = DenseLookup(DenseNew("\n", call.data).newlines, call.n)
    /\ UNCHANGED <<serverVars, call, poolVars, nurseryVars>>

PureNext == UpdateClient \/ RoundTrip \/ Lookup

PureSpec == PureInit /\ [][PureNext]_vars

----------------------------------------------------------------------------
\* pool.rs: WatcherPool, called from one thread.  A socket is "writable" (it takes
\* all it is given), "tight" (it takes one byte and is then full), "full"
\* (EAGAIN), "hup" (the peer hung up: EPIPE) or "reset" (any other error).

SockStates == {"writable", "tight", "full", "hup", "reset"}

\* Lengths of the watched files, around the chunk size.
FileLens == {0, CHUNK_SIZE, 2 * CHUNK_SIZE + 1}

\* The state of the pool that its methods change, and the error one returned.
PoolState == [files |-> files, clients |-> clients, dirty |-> dirty_clients, err |-> ""]

\* VecDeque::remove(i) for a 0-based index i.
RemoveAt(xs, i) == SubSeq(xs, 1, i) \o SubSeq(xs, i + 2, Len(xs))

\* The loop of vecdeque_remove from index i with the end at `end`.
RECURSIVE VecdequeRemoveFrom(_, _, _, _)
VecdequeRemoveFrom(xs, target, i, end) ==
    IF i < end
    THEN IF xs[i + 1] = target
         THEN VecdequeRemoveFrom(RemoveAt(xs, i), target, i, end - 1)
         ELSE VecdequeRemoveFrom(xs, target, i + 1, end)
    ELSE xs

\* A removal that stops after the first occurrence.
VecdequeRemove_first(xs, target) ==
    IF \E i \in 1..Len(xs) : xs[i] = target
    THEN RemoveAt(xs, (CHOOSE i \in 1..Len(xs) :
                          xs[i] = target /\ \A j \in 1..(i - 1) : xs[j] # target) - 1)
    ELSE xs

\* vecdeque_remove(xs, target): removes all occurrences of target.
VecdequeRemove(xs, target) == VecdequeRemoveFrom(xs, target, 0, Len(xs))

\* WatcherPool::deregister_file; rm_watch succeeds.
DeregisterFile(p, fid) ==
    IF fid \notin DOMAIN p.files THEN [p EXCEPT !.err = "FileNotWatched"]
    ELSE [p EXCEPT !.files = MapRemove(p.files, fid),
                   !.clients = [c \in DOMAIN p.clients \ p.files[fid] |-> p.clients[c]]]

\* WatcherPool::deregister_client.
DeregisterClient(p, cid) ==
    IF cid \notin DOMAIN p.clients THEN [p EXCEPT !.err = "ClientNotFound"]
    ELSE LET fid == p.clients[cid].fid
             p1 == [p EXCEPT !.clients = MapRemove(p.clients, cid),
                             !.dirty = VecdequeRemove(p.dirty, cid)]
         IN  IF fid \notin DOMAIN p1.files THEN [p1 EXCEPT !.err = "FileNotWatched"]
             ELSE LET p2 == [p1 EXCEPT !.files[fid] = @ \ {cid}]
                  IN  IF p2.files[fid] = {} THEN DeregisterFile(p2, fid) ELSE p2

\* WatcherPool::file_modified; order is the order in which the watcher set is iterated.
FileModified(p, fid, order) ==
    IF fid \notin DOMAIN p.files THEN [p EXCEPT !.err = "FileNotWatched"]
    ELSE [p EXCEPT !.dirty = @ \o SelectSeq(order, LAMBDA c : c \in p.files[fid])]

\* for fid in modified_files { self.file_modified(fid)?; }
RECURSIVE ModifyAll(_, _, _)
ModifyAll(p, fids, order) ==
    IF fids = <<>> \/ p.err # "" THEN p
    ELSE ModifyAll(FileModified(p, Head(fids), order), Tail(fids), order)

\* for fid in deleted_files { self.deregister_file(fid)?; }
RECURSIVE DeleteAll(_, _)
DeleteAll(p, fids) ==
    IF fids = <<>> \/ p.err # "" THEN p
    ELSE DeleteAll(DeregisterFile(p, Head(fids)), Tail(fids))

\* The watch descriptors of the events of a batch that carry the mask.
WithMask(evs, mask) ==
    LET sel == SelectSeq(evs, LAMBDA e : e.mask = mask)
    IN  [i \in 1..Len(sel) |-> sel[i].wd]

\* What read_events_blocking may return: one or two events on watched files.
EventBatches ==
    LET Ev == [wd : DOMAIN files, mask : {"MODIFY", "DELETE_SELF"}]
    IN  {<<e>> : e \in Ev} \cup {<<e, f>> : e \in Ev, f \in Ev}

\* The orders in which a set of client ids may be iterated.
Orders == {o \in [1..NClients -> ClientIds] : \A c \in ClientIds : \E i \in 1..NClients : o[i] = c}

\* The ids that occur in a queue.
Ids(q) == {q[i] : i \in 1..Len(q)}

\* An id the pool holds nothing of: as good as one never handed out.
Fresh(cid) ==
    /\ cid \notin DOMAIN clients
    /\ cid \notin Ids(dirty_clients)
    /\ \A f \in DOMAIN files : cid \notin files[f]

\* A method returns: the pool takes the state p, the caller gets the result.
PoolReturns(p) ==
    /\ files' = p.files
    /\ clients' = p.clients
    /\ dirty_clients' = p.dirty
    /\ poolRet' = IF p.err = "" THEN "Ok" ELSE "Err"

\* WatcherPool::register_client(cid, sock, path, index): File::open may fail for a
\* file not yet watched; resolve_index returns an offset, an error, or None, on
\* which the unwrap panics.
RegisterClient(cid, fid) ==
    /\ poolPc = "idle" /\ Fresh(cid)
    /\ \E sk \in SockStates, opened \in BOOLEAN, res \in {"start", "end", "err", "none"} :
         LET watched == IF fid \in DOMAIN files
                        THEN [files EXCEPT ![fid] = @ \cup {cid}]
                        ELSE MapInsert(files, fid, {cid})
             offset == IF res = "end" THEN flen[fid] ELSE 0
         IN  IF fid \notin DOMAIN files /\ ~opened
             THEN /\ PoolReturns([PoolState EXCEPT !.err = "Io"])
                  /\ poolPc' = poolPc
             ELSE IF res = "err"
             THEN /\ PoolReturns([PoolState EXCEPT !.files = watched, !.err = "Index"])
                  /\ poolPc' = poolPc
             ELSE IF res = "none"
             THEN /\ PoolReturns([PoolState EXCEPT !.files = watched, !.err = "panic"])
                  /\ poolPc' = "panicked"
             ELSE /\ PoolReturns([PoolState EXCEPT
                                    !.files = watched,
                                    !.clients = MapInsert(clients, cid,
                                        [sock |-> sk, fid |-> fid, offset |-> offset])])
                  /\ poolPc' = poolPc
    /\ UNCHANGED <<flen, dirtyAtCall, lastOutcome>>
    /\ UNCHANGED <<serverVars, call, ret, nurseryVars>>

\* WatcherPool::client_writable(cid), on a writable event of a registered client.
ClientWritable(cid) ==
    /\ poolPc = "idle" /\ cid \in DOMAIN clients
    /\ Len(dirty_clients) < MaxDirty
    /\ PoolReturns([PoolState EXCEPT !.dirty = Append(@, cid)])
    /\ UNCHANGED <<flen, poolPc, dirtyAtCall, lastOutcome>>
    /\ UNCHANGED <<serverVars, call, ret, nurseryVars>>

\* WatcherPool::check_watches: the batch is split into modified and deleted files;
\* the modified ones are marked first, then the deleted ones are deregistered.
CheckWatches ==
    /\ poolPc = "idle"
    /\ \E evs \in EventBatches, order \in Orders :
         LET p == DeleteAll(ModifyAll(PoolState, WithMask(evs, "MODIFY"), order),
                            WithMask(evs, "DELETE_SELF"))
         IN  /\ Len(p.dirty) <= MaxDirty
             /\ PoolReturns(p)
    /\ UNCHANGED <<flen, poolPc, dirtyAtCall, lastOutcome>>
    /\ UNCHANGED <<serverVars, call, ret, nurseryVars>>

\* WatcherPool::deregister_client(cid), called by the owner of the pool.
CallDeregisterClient(cid) ==
    /\ poolPc = "idle"
    /\ PoolReturns(DeregisterClient(PoolState, cid))
    /\ UNCHANGED <<flen, poolPc, dirtyAtCall, lastOutcome>>
    /\ UNCHANGED <<serverVars, call, ret, nurseryVars>>

\* WatcherPool::deregister_file(fid), called by the owner of the pool.
CallDeregisterFile(fid) ==
    /\ poolPc = "idle"
    /\ PoolReturns(DeregisterFile(PoolState, fid))
    /\ UNCHANGED <<flen, poolPc, dirtyAtCall, lastOutcome>>
    /\ UNCHANGED <<serverVars, call, ret, nurseryVars>>

\* A writer appends to a file while the pool is not sending.
FileGrows(fid) ==
    /\ poolPc = "idle"
    /\ \E l \in FileLens : l > flen[fid] /\ flen' = [flen EXCEPT ![fid] = l]
    /\ UNCHANGED <<files, clients, dirty_clients, poolPc, poolRet, dirtyAtCall, lastOutcome>>
    /\ UNCHANGED <<serverVars, call, ret, nurseryVars>>

\* The peer of a registered client reads, stalls, hangs up or resets.
SockChanges(cid) ==
    /\ poolPc \in {"idle", "dirty"} /\ cid \in DOMAIN clients
    /\ \E sk \in SockStates \ {"tight"} :
         /\ sk # clients[cid].sock
         /\ clients[cid].sock \notin {"hup", "reset"}
         /\ clients' = [clients EXCEPT ![cid].sock = sk]
    /\ UNCHANGED <<files, dirty_clients, flen, poolPc, poolRet, dirtyAtCall, lastOutcome>>
    /\ UNCHANGED <<serverVars, call, ret, nurseryVars>>

\* handle_all_dirty is called.
HandleAllDirty ==
    /\ poolPc = "idle"
    /\ poolPc' = "dirty"
    /\ dirtyAtCall' = Ids(dirty_clients)
    /\ UNCHANGED <<lastOutcome, poolRet>>
    /\ UNCHANGED <<files, clients, dirty_clients, flen>>
    /\ UNCHANGED <<serverVars, call, ret, nurseryVars>>

\* A client that is never marked dirty again.
Requeue_never(n) == FALSE

\* handle_client: the client is marked dirty again after a full chunk.
Requeue(n) == n >= CHUNK_SIZE

\* sendfile(sock, file, Some(offset), cnt) by the state of the socket: the bytes
\* sent, or the errno.
Sendfile(sk, cnt) ==
    IF sk = "writable" THEN [st |-> "ok", n |-> cnt]
    ELSE IF sk = "tight" THEN [st |-> "ok", n |-> 1]
    ELSE IF sk = "full" THEN [st |-> "EAGAIN", n |-> 0]
    ELSE IF sk = "hup" THEN [st |-> "EPIPE", n |-> 0]
    ELSE [st |-> "ECONNRESET", n |-> 0]

\* One iteration of the loop of handle_all_dirty: pop_front, then handle_client
\* with update_client; an empty queue ends the call with Ok, an error ends it.
HandleNextDirty ==
    /\ poolPc = "dirty"
    /\ IF dirty_clients = <<>>
       THEN /\ poolPc' = "idle"
            /\ poolRet' = "Ok"
            /\ dirtyAtCall' = {}
            /\ lastOutcome' = [c \in ClientIds |-> "none"]
            /\ UNCHANGED <<files, clients, dirty_clients>>
       ELSE LET cid == Head(dirty_clients)
                rest == Tail(dirty_clients)
                fail(e) == /\ poolPc' = "idle"
                           /\ poolRet' = "Err"
                           /\ dirty_clients' = rest
                           /\ dirtyAtCall' = {}
                           /\ lastOutcome' = [c \in ClientIds |-> "none"]
                           /\ UNCHANGED <<files, clients>>
            IN  IF cid \notin DOMAIN clients THEN fail("ClientNotFound")
                ELSE IF clients[cid].fid \notin DOMAIN files THEN fail("FileNotWatched")
                ELSE LET c == clients[cid]
                         cnt == ChunkCount(flen[c.fid], c.offset)
                         sf == Sendfile(c.sock, cnt)
                     IN  IF cnt = 0
                         THEN /\ dirty_clients' = rest
                              /\ lastOutcome' = [lastOutcome EXCEPT ![cid] = "uptodate"]
                              /\ UNCHANGED <<files, clients, poolPc, poolRet, dirtyAtCall>>
                         ELSE IF sf.st = "ok"
                         THEN /\ clients' = [clients EXCEPT
                                   ![cid].offset = @ + sf.n,
                                   ![cid].sock = IF c.sock = "tight" THEN "full" ELSE @]
                              /\ dirty_clients' = IF Requeue(sf.n) THEN Append(rest, cid)
                                                  ELSE rest
                              /\ lastOutcome' = [lastOutcome EXCEPT ![cid] =
                                                   IF sf.n < cnt THEN "refused" ELSE "sent"]
                              /\ UNCHANGED <<files, poolPc, poolRet, dirtyAtCall>>
                         ELSE IF sf.st = "EAGAIN"
                         THEN /\ dirty_clients' = rest
                              /\ lastOutcome' = [lastOutcome EXCEPT ![cid] = "refused"]
                              /\ UNCHANGED <<files, clients, poolPc, poolRet, dirtyAtCall>>
                         ELSE IF sf.st = "EPIPE"
                         THEN LET p == DeregisterClient(
                                          [PoolState EXCEPT !.dirty = rest], cid)
                              IN  IF p.err # "" THEN fail(p.err)
                                  ELSE /\ files' = p.files
                                       /\ clients' = p.clients
                                       /\ dirty_clients' = p.dirty
                                       /\ lastOutcome' = [lastOutcome EXCEPT ![cid] = "hup"]
                                       /\ UNCHANGED <<poolPc, poolRet, dirtyAtCall>>
                         ELSE fail("Nix")
    /\ UNCHANGED flen
    /\ UNCHANGED <<serverVars, call, ret, nurseryVars>>

PoolNext ==
    \/ \E cid \in ClientIds, fid \in FileIds : RegisterClient(cid, fid)
    \/ \E cid \in ClientIds : ClientWritable(cid)
    \/ CheckWatches
    \/ \E cid \in ClientIds : CallDeregisterClient(cid)
    \/ \E fid \in FileIds : CallDeregisterFile(fid)
    \/ \E fid \in FileIds : FileGrows(fid)
    \/ \E cid \in ClientIds : SockChanges(cid)
    \/ HandleAllDirty
    \/ HandleNextDirty

PoolSpec == Init /\ [][PoolNext]_vars

\* The pool between the calls of handle_all_dirty when its owner deregisters
\* nothing and only the first file is written to.
DirtyNext ==
    \/ \E cid \in ClientIds, fid \in FileIds : RegisterClient(cid, fid)
    \/ \E cid \in ClientIds : ClientWritable(cid)
    \/ CheckWatches
    \/ FileGrows(1)
    \/ \E cid \in ClientIds : SockChanges(cid)
    \/ HandleAllDirty
    \/ HandleNextDirty

\* The loop of handle_all_dirty keeps running once it is entered.
DirtySpec == Init /\ [][DirtyNext]_vars /\ WF_vars(HandleNextDirty)

----------------------------------------------------------------------------
\* nursery.rs and header.rs: a new client's header is read from its non-blocking
\* socket through a BufReader and parsed with nom.  A parser returns Done with
\* the rest of the input and a value, Error, or Incomplete.

PDone(rest, val) == [st |-> "Done", rest |-> rest, val |-> val]
PError == [st |-> "Error", rest |-> <<>>, val |-> <<>>]
PIncomplete == [st |-> "Incomplete", rest |-> <<>>, val |-> <<>>]

\* G applied to the value of e, which is evaluated once.
Bind(e, G(_)) == CHOOSE y \in {G(x) : x \in {e}} : TRUE

\* tag!(t): the input and the tag are compared over the shorter of their lengths.
Tag(t, input) ==
    LET m == Min(Len(input), Len(t))
    IN  IF SubSeq(input, 1, m) # SubSeq(t, 1, m) THEN PError
        ELSE IF m < Len(t) THEN PIncomplete
        ELSE PDone(SubSeq(input, Len(t) + 1, Len(input)), t)

\* take_until!(" "): the input up to the first space, which stays in the rest.
TakeUntilSpace(input) ==
    IF Len(input) < 1 THEN PIncomplete
    ELSE IF \A i \in 1..Len(input) : input[i] # " " THEN PError
    ELSE LET i == CHOOSE i \in 1..Len(input) :
                     input[i] = " " /\ \A j \in 1..(i - 1) : input[j] # " "
         IN  PDone(SubSeq(input, i, Len(input)), SubSeq(input, 1, i - 1))

\* alt!: the first alternative that does not return Error decides.
RECURSIVE AltFrom(_, _)
AltFrom(results, i) ==
    IF i > Len(results) THEN PError
    ELSE IF results[i].st = "Error" THEN AltFrom(results, i + 1)
    ELSE results[i]

Alt(results) == Bind(results, LAMBDA rs : AltFrom(rs, 1))

\* The ASCII digits.
DigitChars == {Digits[i] : i \in 1..Len(Digits)}

\* natural: recognize!(nom::digit).
Natural(input) ==
    LET n == IF \E i \in 1..Len(input) : input[i] \notin DigitChars
            THEN (CHOOSE i \in 1..Len(input) :
                     input[i] \notin DigitChars /\ \A j \in 1..(i - 1) : input[j] \in DigitChars) - 1
            ELSE Len(input)
    IN  IF Len(input) = 0 THEN PIncomplete
        ELSE IF n = 0 THEN PError
        ELSE PDone(SubSeq(input, n + 1, Len(input)), SubSeq(input, 1, n))

\* A tag followed by a natural, as byte_idx, line_idx and seqnum_idx.
TagNatural(t, name, input) ==
    Bind(Tag(t, input), LAMBDA a :
        IF a.st # "Done" THEN a
        ELSE Bind(Natural(a.rest), LAMBDA b :
                 IF b.st # "Done" THEN b ELSE PDone(b.rest, <<name, b.val>>)))

\* A tag that stands for a value, as start_idx and end_idx.
TagValue(t, val, input) ==
    Bind(Tag(t, input), LAMBDA a : IF a.st # "Done" THEN a ELSE PDone(a.rest, val))

\* index: alt!(byte_idx | line_idx | seqnum_idx | start_idx | end_idx).
IndexParser(input) ==
    Alt(<<TagNatural(<<"b", "y", "t", "e", " ">>, "Byte", input),
          TagNatural(<<"l", "i", "n", "e", " ">>, "Line", input),
          TagNatural(<<"s", "e", "q", "n", "u", "m", " ">>, "SeqNum", input),
          TagValue(<<"s", "t", "a", "r", "t">>, <<"Start">>, input),
          TagValue(<<"e", "n", "d">>, <<"End">>, input)>>)

\* stream_header: "stream " path " from " index.
StreamHeader(input) ==
    Bind(Tag(<<"s", "t", "r", "e", "a", "m", " ">>, input), LAMBDA a :
        IF a.st # "Done" THEN a
        ELSE Bind(TakeUntilSpace(a.rest), LAMBDA b :
            IF b.st # "Done" THEN b
            ELSE Bind(Tag(<<" ", "f", "r", "o", "m", " ">>, b.rest), LAMBDA c :
                IF c.st # "Done" THEN c
                ELSE Bind(IndexParser(c.rest), LAMBDA d :
                    IF d.st # "Done" THEN d
                    ELSE PDone(d.rest, <<"Stream", b.val, d.val>>)))))

\* header: alt!(list_header | stream_header | stats_header).
HeaderParser(input) ==
    Alt(<<TagValue(<<"l", "i", "s", "t">>, <<"List">>, input),
          StreamHeader(input),
          TagValue(<<"s", "t", "a", "t", "s">>, <<"Stats">>, input)>>)

\* The header lines the peers send.
NurseryLines ==
    {<<"l", "i", "s", "t", "\n">>,
     <<"s", "t", "a", "t", "s", "\n">>,
     <<"s", "t", "r", "e", "a", "m", " ", "a", " ", "f", "r", "o", "m", " ", "e", "n", "d", "\n">>}

\* BufRead::read_line on the reader's buffer followed by what the socket holds:
\* with a newline in reach the line is returned and the rest stays buffered;
\* without one everything is consumed into the caller's string and the next read
\* of the socket fails with WouldBlock.
BufReadLine(buffered, received) ==
    LET avail == buffered \o received
    IN  IF \E i \in 1..Len(avail) : avail[i] = "\n"
        THEN LET i == CHOOSE i \in 1..Len(avail) :
                         avail[i] = "\n" /\ \A j \in 1..(i - 1) : avail[j] # "\n"
             IN  [st |-> "Ok", line |-> SubSeq(avail, 1, i),
                  left |-> SubSeq(avail, i + 1, Len(avail))]
        ELSE [st |-> "WouldBlock", line |-> avail, left |-> <<>>]

\* Nursery::readln: a fresh String per call; on WouldBlock it returns None and the
\* String, with what was read into it, is dropped.
Readln(buffered, received) ==
    LET r == BufReadLine(buffered, received)
    IN  IF r.st = "WouldBlock" THEN [some |-> FALSE, buf |-> <<>>, left |-> <<>>]
        ELSE [some |-> TRUE, buf |-> r.line, left |-> r.left]

\* The result of try_read_header for what readln returned.
HeaderResult(r) ==
    IF ~r.some THEN [st |-> "None", header |-> <<>>]
    ELSE Bind(HeaderParser(r.buf), LAMBDA h :
             IF h.st = "Done" THEN [st |-> "Some", header |-> h.val]
             ELSE IF h.st = "Error" THEN [st |-> "Err", header |-> <<>>]
             ELSE [st |-> "None", header |-> <<>>])

\* Nursery::register(sock): a new client whose peer is going to send one header line.
NurseryRegister(cid) ==
    /\ cid \notin DOMAIN rdr
    /\ \A c \in NurseryIds : c < cid => c \in DOMAIN rdr
    /\ \E line \in NurseryLines :
         /\ nline' = MapInsert(nline, cid, line)
         /\ wire' = MapInsert(wire, cid, line)
    /\ rdr' = MapInsert(rdr, cid, <<>>)
    /\ nsock' = MapInsert(nsock, cid, <<>>)
    /\ nret' = MapInsert(nret, cid, [st |-> "None", header |-> <<>>])
    /\ UNCHANGED <<serverVars, call, ret, poolVars>>

\* Some more bytes of the header arrive at the client's socket.
PeerSends(cid) ==
    /\ cid \in DOMAIN rdr /\ wire[cid] # <<>>
    /\ \E n \in 1..Len(wire[cid]) :
         /\ nsock' = [nsock EXCEPT ![cid] = @ \o SubSeq(wire[cid], 1, n)]
         /\ wire' = [wire EXCEPT ![cid] = SubSeq(@, n + 1, Len(@))]
    /\ UNCHANGED <<rdr, nline, nret>>
    /\ UNCHANGED <<serverVars, call, ret, poolVars>>

\* Nursery::try_read_header(cid), called when the socket has become readable, for
\* a client that is still in the nursery.
TryReadHeader(cid) ==
    /\ cid \in DOMAIN rdr /\ nret[cid].st = "None"
    /\ nsock[cid] # <<>> \/ rdr[cid] # <<>>
    /\ \E r \in {Readln(rdr[cid], nsock[cid])} :
         /\ rdr' = [rdr EXCEPT ![cid] = r.left]
         /\ nret' = [nret EXCEPT ![cid] = HeaderResult(r)]
    /\ nsock' = [nsock EXCEPT ![cid] = <<>>]
    /\ UNCHANGED <<wire, nline>>
    /\ UNCHANGED <<serverVars, call, ret, poolVars>>

NurseryNext ==
    \/ \E cid \in NurseryIds : NurseryRegister(cid)
    \/ \E cid \in NurseryIds : PeerSends(cid)
    \/ \E cid \in NurseryIds : TryReadHeader(cid)

\* The peer sends all of its header, and every readable event is followed by a
\* call of try_read_header.
NurserySpec ==
    /\ Init /\ [][NurseryNext]_vars
    /\ \A cid \in NurseryIds : WF_vars(PeerSends(cid)) /\ WF_vars(TryReadHeader(cid))

----------------------------------------------------------------------------
\* The handshake thread and the eventfd, step by step.

\* Client::new(conn) and CLIENTS.insert; the eventfd is not written yet.
HandshakeInsert(k) ==
    /\ Running /\ cstate[k] = "accepted" /\ HeaderReadable(k)
    /\ sent' = [sent EXCEPT ![k] = <<>>]
    /\ LET parsed == ParseIsize(Trim(ReadLine(sent[k])))
           cur_len == FILE_LENGTH
           offset == ResolveOffset(parsed.val, cur_len)
       IN  IF parsed.ok
           THEN /\ CLIENTS' = MapInsert(CLIENTS, cport[k], NewClientRec(k, offset))
                /\ cstate' = [DropEntry(CLIENTS, cport[k]) EXCEPT ![k] = "inserted"]
                /\ hdr' = [hdr EXCEPT ![k] = parsed.val]
                /\ initOff' = [initOff EXCEPT ![k] = offset]
           ELSE /\ cstate' = [cstate EXCEPT ![k] = "rejected"]
                /\ UNCHANGED <<CLIENTS, hdr, initOff>>
    /\ UNCHANGED <<envVars, FILE_LENGTH, mainPc, exitCode, inoq, cq, batch,
                   cport, peerClosed, kernVars, wakeLen>>
    /\ UNCHANGED pureVars

\* rustix::io::write(&*EVENTFD, ..): the poll on the eventfd posts a completion.
EventfdWrite(k) ==
    /\ Running /\ cstate[k] = "inserted"
    /\ cstate' = [cstate EXCEPT ![k] = "registered"]
    /\ cq' = PostPoll(cq, NewClientCqe)
    /\ UNCHANGED <<envVars, FILE_LENGTH, CLIENTS, mainPc, exitCode, inoq, batch,
                   cport, peerClosed, sent, hdr, initOff, kernVars, wakeLen>>
    /\ UNCHANGED pureVars

\* rustix::io::read(&*EVENTFD, ..) in the NewClient arm empties the eventfd: a poll
\* result for a write that came before the read, and that has not been posted to the
\* ring yet, is not posted any more.
EventfdRead ==
    /\ Running /\ mainPc = "handle" /\ batch # <<>> /\ Head(batch).ud = "NewClient"
    /\ \E i \in 1..Len(cq) : cq[i] = NewClientCqe
    /\ cq' = SelectSeq(cq, LAMBDA e : e # NewClientCqe)
    /\ UNCHANGED <<envVars, FILE_LENGTH, CLIENTS, mainPc, exitCode, inoq, batch,
                   connVars, kernVars, wakeLen>>
    /\ UNCHANGED pureVars

\* The headers of peers that ask for the file from byte 0 or from byte 1.
WakeLines == {c.text : c \in {d \in HeaderCases : d.text[Len(d.text)] = "\n" /\ d.ok /\ d.value >= 0}}

\* The server with peers on distinct ports that stay connected.
WakeNext ==
    \/ FileCreate
    \/ FileAppend
    \/ \E k \in Conns : AcceptDistinct(k)
    \/ \E k \in Conns, line \in WakeLines : SendHeader(k, line)
    \/ \E k \in Conns : HandshakeInsert(k)
    \/ \E k \in Conns : EventfdWrite(k)
    \/ EventfdRead
    \/ OpenFile
    \/ InitLength
    \/ AddWatch
    \/ IssueRequests
    \/ WaitWake
    \/ HandleCompletion
    \/ \E k \in Conns : ExecFill(k)
    \/ \E k \in Conns : ExecDrain(k)

\* The handshake thread, once it has inserted its client, goes on to write the
\* eventfd.
WakeSpec ==
    /\ Init /\ [][WakeNext]_vars
    /\ FairLoop
    /\ \A k \in Conns : WF_vars(ExecDrain(k)) /\ WF_vars(EventfdWrite(k))

----------------------------------------------------------------------------
\* Vocabulary of the properties.

\* The connection has completed its handshake (it may have been dropped since).
Handshaken(k) == cstate[k] \in {"registered", "dropped"}

\* The connection is the one its port's registry entry stands for.
InRegistry(k) == cport[k] \in DOMAIN CLIENTS /\ CLIENTS[cport[k]].conn = k

\* The file range [from, to) as a sequence of bytes (0 where the file has no byte).
FileRange(from, to) ==
    [i \in 1..(to - from) |-> IF from + i <= Len(file) THEN file[from + i] ELSE 0]


\* No drain completion for port p is waiting to be handled.
AtRest(p) == \A i \in 1..Len(batch \o cq) : ~((batch \o cq)[i].ud = "DrainPipe" /\ (batch \o cq)[i].id = p)

\* C1: what every session's socket has received is exactly the file range
\* [initial offset, offset): it is a contiguous run of the file starting at the
\* initial offset, and, whenever no drain completion of the session awaits handling,
\* it ends at the session's offset; of two sessions that start at position 0, one's
\* output is a prefix of the other's.
C1_OutputIsFileRange ==
    \A k \in Conns :
        /\ Handshaken(k) => out[k] = FileRange(initOff[k], initOff[k] + Len(out[k]))
        /\ (InRegistry(k) /\ AtRest(cport[k]))
              => out[k] = FileRange(initOff[k], CLIENTS[cport[k]].offset)
        /\ \A j \in Conns :
              (Handshaken(k) /\ Handshaken(j) /\ initOff[k] = 0 /\ initOff[j] = 0
                 /\ Len(out[k]) <= Len(out[j]))
                 => out[k] = SubSeq(out[j], 1, Len(out[k]))

\* C3: every registered client's offset lies between 0 and the value of the
\* file-length cell, in every reachable state.
C3_OffsetWithinLength ==
    \A p \in DOMAIN CLIENTS : 0 <= CLIENTS[p].offset /\ CLIENTS[p].offset <= FILE_LENGTH

\* The step is the handling of a successful drain completion for port p.
DrainHandled(p) ==
    /\ mainPc = "handle" /\ batch # <<>> /\ batch' = Tail(batch)
    /\ Head(batch).ud = "DrainPipe" /\ Head(batch).ok /\ Head(batch).id = p

\* C4: a session's offset changes only when one of its drain completions is
\* handled, by the number of bytes that completion reports; it never decreases; and
\* whenever no drain completion of the session awaits handling, the number of bytes
\* written to its socket is offset - initial offset.
C4_OffsetCountsBytesSent ==
    [][\A k \in Conns :
          /\ (InRegistry(k) /\ InRegistry(k)'
                /\ CLIENTS'[cport[k]].offset # CLIENTS[cport[k]].offset)
               => /\ DrainHandled(cport[k])
                  /\ CLIENTS'[cport[k]].offset = CLIENTS[cport[k]].offset + Head(batch).res
                  /\ CLIENTS'[cport[k]].offset > CLIENTS[cport[k]].offset
          /\ (InRegistry(k)' /\ AtRest(cport[k])')
               => Len(out'[k]) = CLIENTS'[cport[k]].offset - initOff'[k]]_vars

\* The step is the handshake of connection k, reading the header line in sent[k].
HandshakeStep(k) == cstate[k] = "accepted" /\ cstate'[k] # "accepted"

\* The header case the peer of connection k has sent.
SentCase(k) == CHOOSE c \in HeaderCases : c.text = sent[k]

\* C5: a handshake with a negative header h, when the cell holds L, registers the
\* client at offset max(0, L + h) (L - |h| when |h| <= L, else 0, never an error or
\* a wrapped value); and a later change of the cell changes no registered offset.
C5_NegativeHeaderSaturates ==
    [][/\ \A k \in Conns :
            (HandshakeStep(k) /\ SentCase(k).ok /\ SentCase(k).value < 0)
               => /\ InRegistry(k)'
                  /\ CLIENTS'[cport[k]].offset = Max(0, FILE_LENGTH + SentCase(k).value)
                  /\ initOff'[k] = CLIENTS'[cport[k]].offset
       /\ FILE_LENGTH' # FILE_LENGTH
            => \A p \in DOMAIN CLIENTS :
                  p \in DOMAIN CLIENTS' /\ CLIENTS'[p].offset = CLIENTS[p].offset]_vars

\* Two clients sent the header -1: one when the cell held less than 2 and it stands at
\* offset 0 although the cell has grown to 2 since, the other when the cell held 2 and
\* it started at offset 1.
C5_Witness ==
    \E k, j \in Conns :
        /\ InRegistry(k) /\ hdr[k] = -1 /\ initOff[k] = 0 /\ CLIENTS[cport[k]].offset = 0
        /\ InRegistry(j) /\ hdr[j] = -1 /\ initOff[j] = 1
        /\ FILE_LENGTH = 2

\* C6: a session whose header is N >= 0 starts at offset N, and the first byte it
\* receives is the file byte at position N.
C6_NonNegativeHeaderIsOffset ==
    \A k \in Conns :
        (Handshaken(k) /\ hdr[k] >= 0)
           => /\ initOff[k] = hdr[k]
              /\ out[k] # <<>> => out[k][1] = FileRange(hdr[k], hdr[k] + 1)[1]

\* The client is idle: issue_requests has nothing in flight and nothing in the pipe.
Idle(client) == ~client.in_flight /\ client.bytes_in_pipe = 0

\* C8: when issue_requests evaluates the clients after a MODIFY event was handled
\* and a length L stored for it, the length it loads from the cell is at least L, so
\* every idle client below L gets its fill issued; and the cell never goes back to an
\* older length.
C8_StoreBeforeWake ==
    [][/\ (mainPc = "issue" /\ mainPc' = "wait" /\ wakeLen >= 0)
          => /\ LoadFileLength >= wakeLen
             /\ \A p \in DOMAIN CLIENTS :
                   (Idle(CLIENTS[p]) /\ CLIENTS[p].offset < wakeLen)
                      => /\ CLIENTS'[p].in_flight
                         /\ fills'[CLIENTS[p].conn] # <<>>
       /\ FILE_LENGTH' >= FILE_LENGTH]_vars

\* After a MODIFY event for which length 2 was stored, issue_requests has evaluated a
\* client that had received byte 1, and its fill at offset 1 is in flight.
C8_Witness ==
    \E k \in Conns :
        /\ InRegistry(k) /\ mainPc = "wait" /\ wakeLen = 2 /\ FILE_LENGTH = 2
        /\ initOff[k] = 0 /\ out[k] = <<1>>
        /\ CLIENTS[cport[k]].in_flight /\ fills[k] = <<1>>

\* C10: the registry holds exactly the connections that completed their handshake
\* and have not been dropped: every entry is such a connection, filed under its
\* port, and every such connection has its entry.
C10_RegistryIsLiveSessions ==
    /\ \A p \in DOMAIN CLIENTS :
          /\ CLIENTS[p].conn \in Conns
          /\ cport[CLIENTS[p].conn] = p
          /\ cstate[CLIENTS[p].conn] = "registered"
    /\ \A k \in Conns : cstate[k] = "registered" => InRegistry(k)

\* One session was ended by its failed drain and its entry removed, and one connection
\* was rejected for its header and got none.
C10_Witness ==
    \E k, j \in Conns :
        /\ cstate[k] = "dropped" /\ peerClosed[k] /\ cport[k] \notin DOMAIN CLIENTS
        /\ cstate[j] = "rejected"

\* The entry of connection k stands in the registry at offset at least n.
Reached(k, n) == InRegistry(k) /\ CLIENTS[cport[k]].offset >= n

\* The main thread is about to handle a MODIFY event, and will store a length of at
\* least n.
ModifyPending(n) ==
    /\ Running /\ mainPc = "handle" /\ batch # <<>> /\ Head(batch).ud = "Inotify"
    /\ \E i \in 1..Len(inoq) : inoq[i] = "MODIFY"
    /\ Len(file) >= n

\* C2: whenever the watcher handles a MODIFY event and stores a length L, every client
\* that was in the registry before the event was processed, and whose peer keeps
\* reading, eventually reaches offset >= L; and nothing is sent to a client while the
\* file is empty.
C2_LivenessAfterGrowth ==
    /\ \A k \in Conns : \A n \in 1..MaxFile :
          (ModifyPending(n) /\ InRegistry(k)) ~> (Reached(k, n) \/ peerClosed[k])
    /\ [](\A k \in Conns : file = <<>> => out[k] = <<>>)

\* The main thread has not yet initialised the cell from the file's metadata.
BeforeInit == mainPc \in {"wait_for_file", "init_len"}

\* No splice has been requested, executed or completed for any client.
NothingIssued ==
    /\ \A k \in Conns : fills[k] = <<>> /\ drains[k] = 0 /\ pipe[k] = <<>> /\ out[k] = <<>>
    /\ \A p \in DOMAIN CLIENTS : Idle(CLIENTS[p])
    /\ \A i \in 1..Len(cq) : cq[i].ud \notin {"FillPipe", "DrainPipe"}

\* Connection k completed its handshake while the file did not exist.
RegisteredBeforeFile(k) == fstate = "absent" /\ InRegistry(k)

\* C7: a client can be registered before the file exists; no fill or drain is issued for any client before the file has been opened and
\* the cell initialised; and once it has been, every client registered before the file
\* existed whose offset is below the length is sent the bytes from its offset up to
\* that length, without any further modification of the file.
C7_PendingClientsServed ==
    /\ [](BeforeInit => NothingIssued)
    /\ \A k \in Conns : \A n \in 1..MaxFile :
          [](RegisteredBeforeFile(k)
               => []((mainPc = "add_watch" /\ initOff[k] < n /\ FILE_LENGTH >= n)
                        => <>(Len(out[k]) >= n - initOff[k] \/ peerClosed[k])))

\* C9: if the peer of the first connection never reads a byte, every other registered
\* client whose offset is below the length in the cell is still eventually sent its
\* bytes up to that length.
C9_BackpressureIndependence ==
    \A k \in FastConns : \A n \in 1..MaxFile :
        [](out[1] = <<>>)
           => ((InRegistry(k) /\ Watching /\ initOff[k] < n /\ FILE_LENGTH >= n)
                  ~> (Len(out[k]) >= n - initOff[k] \/ peerClosed[k]))

----------------------------------------------------------------------------
\* Connection k is a session in progress: accepted and not yet rejected or ended.
Live(k) == cstate[k] \in {"accepted", "registered"}

\* C11: no two sessions that are live at the same time have the same id, and the
\* handshake of one connection never removes or changes the registry entry of
\* another session that is still registered.
C11_IdsLocallyUnique ==
    /\ [](\A j \in Conns : \A k \in Conns :
            (j # k /\ Live(j) /\ Live(k)) => cport[j] # cport[k])
    /\ [][\A k \in Conns : HandshakeStep(k) =>
            \A j \in Conns \ {k} :
               InRegistry(j) => /\ cport[j] \in DOMAIN CLIENTS'
                                /\ CLIENTS'[cport[j]] = CLIENTS[cport[j]]
                                /\ cstate'[j] = cstate[j]]_vars

\* A failed fill or drain completion tagged with id p is being handled.
ErrHandled(p) ==
    /\ mainPc = "handle" /\ batch # <<>> /\ batch' = Tail(batch)
    /\ Head(batch).ud \in {"FillPipe", "DrainPipe"} /\ ~Head(batch).ok
    /\ Head(batch).id = p

\* C12: when a fill or drain completes with EPIPE or ECONNRESET, the entry that is
\* removed is the entry of the session whose socket failed, and of no other; the
\* process keeps running, and every other entry and the cell are unchanged.
C12_PeerErrorRemovesThatClient ==
    [][\A p \in Ports :
         (ErrHandled(p) /\ Head(batch).err \in {"PIPE", "CONNRESET"}) =>
            /\ p \notin DOMAIN CLIENTS'
            /\ p \in DOMAIN CLIENTS => peerClosed[CLIENTS[p].conn]
            /\ \A q \in DOMAIN CLIENTS \ {p} :
                  q \in DOMAIN CLIENTS' /\ CLIENTS'[q] = CLIENTS[q]
            /\ FILE_LENGTH' = FILE_LENGTH
            /\ exitCode' = -1]_vars

\* C15: a handshake whose header is malformed ends with the connection closed and
\* changes nothing else: the registry, the cell, every other connection, the queues
\* and the kernel's requests are unchanged and the process keeps running; and a
\* connection that was closed this way is never in the registry.
C15_MalformedHeaderRejected ==
    /\ [](\A k \in Conns : cstate[k] = "rejected" => ~InRegistry(k))
    /\ [][\A k \in Conns : (HandshakeStep(k) /\ ~SentCase(k).ok) =>
            /\ cstate'[k] = "rejected"
            /\ \A j \in Conns \ {k} : cstate'[j] = cstate[j]
            /\ UNCHANGED <<CLIENTS, FILE_LENGTH, exitCode, mainPc, cq, batch, inoq,
                           kernVars, envVars>>]_vars

\* A connection was closed for a malformed header and a later one is being served.
C15_Witness ==
    /\ cstate[1] = "rejected"
    /\ InRegistry(2) /\ out[2] # <<>>
    /\ Running

\* issue_requests makes its pass over the registry.
IssueStep == mainPc = "issue" /\ mainPc' = "wait"

\* C20: when issue_requests looks at a registered client whose offset is at or
\* beyond the length in the cell, it issues no fill and no drain for it and leaves
\* its entry as it is; and a session whose initial offset equals the length of the
\* file has been sent nothing.
C20_CaughtUpClientSentNothing ==
    /\ [](\A k \in Conns :
            (InRegistry(k) /\ initOff[k] = Len(file) /\ hdr[k] = Len(file))
               => out[k] = <<>>)
    /\ [][IssueStep =>
            \A p \in DOMAIN CLIENTS :
               CLIENTS[p].offset >= FILE_LENGTH =>
                  /\ ReqFor(CLIENTS[p], LoadFileLength) = "none"
                  /\ CLIENTS'[p] = CLIENTS[p]
                  /\ fills'[CLIENTS[p].conn] = fills[CLIENTS[p].conn]
                  /\ drains'[CLIENTS[p].conn] = drains[CLIENTS[p].conn]]_vars

\* Connection k has been accepted and its peer has sent no header line.
Stalled(k) == cstate[k] = "accepted" /\ sent[k] = <<>>

\* C18: while the first connection never sends its header, the listener can still
\* accept the next connection, a connection whose header line has arrived can
\* complete its handshake, and issue_requests can take the registry; and every
\* other registered client whose offset is below the length in the cell is
\* eventually sent its bytes up to that length.
C18_StalledHandshakeBlocksNoOne ==
    /\ [](\A k \in Conns :
            (Running /\ cstate[k] = "none" /\ \A j \in Conns : j < k => cstate[j] # "none")
               => ENABLED Accept(k))
    /\ [](\A k \in Conns :
            (Running /\ cstate[k] = "accepted" /\ sent[k] # <<>>) => ENABLED Handshake(k))
    /\ []((Running /\ mainPc = "issue") => ENABLED IssueRequests)
    /\ \A k \in FastConns : \A n \in 1..MaxFile :
          (InRegistry(k) /\ Watching /\ initOff[k] < n /\ FILE_LENGTH >= n)
             ~> (Len(out[k]) >= n - initOff[k] \/ peerClosed[k])

\* The first connection is stalled in its handshake while a later one is served.
C18_Witness ==
    /\ Stalled(1)
    /\ InRegistry(2) /\ out[2] # <<>>

\* C13: the process never panics, neither when a failed fill or drain is handled nor
\* when a later completion of the same client is; and handling a failed fill or
\* drain, whatever the error, leaves the process running and every other client's
\* entry and the cell unchanged.
C13_ErrorsConfinedToSession ==
    /\ [](exitCode # 101)
    /\ [][\A p \in Ports : ErrHandled(p) =>
            /\ exitCode' = -1
            /\ FILE_LENGTH' = FILE_LENGTH
            /\ \A q \in DOMAIN CLIENTS \ {p} :
                  q \in DOMAIN CLIENTS' /\ CLIENTS'[q] = CLIENTS[q]]_vars

\* C14: handling a drain that failed with EAGAIN leaves the client in the registry
\* with its offset unchanged.
C14_AgainKeepsSession ==
    [][\A p \in Ports :
         (ErrHandled(p) /\ Head(batch).err = "AGAIN" /\ p \in DOMAIN CLIENTS) =>
            /\ p \in DOMAIN CLIENTS'
            /\ CLIENTS'[p].offset = CLIENTS[p].offset]_vars

\* C17: once an accept has failed, the process has exited with status 1.
C17_AcceptErrorExits ==
    (\E k \in Conns : cstate[k] = "bad") => exitCode = 1

\* The main thread handles the inotify completion: it reads and handles every
\* queued file event.
FileEventsHandled ==
    /\ mainPc = "handle" /\ batch # <<>> /\ batch' = Tail(batch)
    /\ Head(batch).ud = "Inotify"

\* A self-move, or an attribute change seen while the file's link count is 0.
FatalEvent(ev) == ev = "MOVE_SELF" \/ (ev = "ATTRIB" /\ fstate = "unlinked")

\* C16: the process exits with status 0 exactly in the step that handles file
\* events when linger is false and one of the events is a self-move or an attribute
\* change seen with link count 0; with linger true that step leaves the process
\* running and the registry unchanged; modify events and attribute changes seen
\* with a positive link count never end the process.
C16_ExitOnFileGone ==
    /\ [][(exitCode # 0 /\ exitCode' = 0) =>
            /\ FileEventsHandled /\ ~linger
            /\ \E i \in 1..Len(inoq) : FatalEvent(inoq[i])]_vars
    /\ [][(FileEventsHandled /\ ~linger /\ \E i \in 1..Len(inoq) : FatalEvent(inoq[i]))
             => exitCode' = 0]_vars
    /\ [][(FileEventsHandled /\ (linger \/ \A i \in 1..Len(inoq) : ~FatalEvent(inoq[i])))
             => (exitCode' = -1 /\ DOMAIN CLIENTS' = DOMAIN CLIENTS)]_vars

\* The process has exited with status 0 after the file was unlinked, a client being
\* registered.
C16_Witness ==
    /\ exitCode = 0 /\ ~linger /\ fstate = "unlinked"
    /\ InRegistry(1)

\* s begins with t.
IsPrefix(t, s) == Len(t) <= Len(s) /\ SubSeq(s, 1, Len(t)) = t

\* The header case whose line the peer of connection k has sent, whatever follows it.
SentHeader(k) ==
    CHOOSE c \in HeaderCases :
        /\ IsPrefix(c.text, sent[k])
        /\ sent[k] = c.text \/ c.text[Len(c.text)] = "\n"

\* The peer of a connection whose handshake is over writes to its socket.
SendMoreStep(k) == cstate[k] \notin {"none", "accepted"} /\ sent'[k] # sent[k]

\* C19: the outcome of a handshake is the outcome for the header line alone,
\* whatever bytes follow it: a well-formed line registers the client at the offset
\* resolved from it and the cell, a malformed one closes the connection; and a write
\* of the peer after the handshake changes nothing but the unread content of its own
\* socket, which no step of the server ever consumes.
C19_BytesAfterHeaderIgnored ==
    /\ [][\A k \in Conns : HandshakeStep(k) =>
            IF SentHeader(k).ok
            THEN /\ cstate'[k] = "registered"
                 /\ CLIENTS'[cport[k]] =
                       NewClientRec(k, ResolveOffset(SentHeader(k).value, FILE_LENGTH))
                 /\ initOff'[k] = ResolveOffset(SentHeader(k).value, FILE_LENGTH)
            ELSE cstate'[k] = "rejected" /\ CLIENTS' = CLIENTS]_vars
    /\ [][\A k \in Conns : SendMoreStep(k) =>
            UNCHANGED <<envVars, FILE_LENGTH, CLIENTS, mainPc, exitCode, inoq, cq, batch,
                        cstate, cport, peerClosed, hdr, initOff, kernVars, wakeLen>>]_vars
    /\ [][\A k \in Conns :
            (cstate[k] \notin {"none", "accepted"} /\ sent[k] # <<>>) => sent'[k] = sent[k]]_vars

\* A client has written to its socket after its handshake and has been served; the
\* other client has been served too.
C19_Witness ==
    /\ InRegistry(1) /\ sent[1] # <<>> /\ out[1] # <<>>
    /\ InRegistry(2) /\ out[2] # <<>>

----------------------------------------------------------------------------
\* main stores the initial length.
InitLengthStep == mainPc = "init_len" /\ mainPc' = "add_watch"

\* C21: the cell never decreases, and it changes only in the step of main that
\* stores the initial length and in the step that handles file events.
C21_CellMonotonic ==
    [][/\ FILE_LENGTH' >= FILE_LENGTH
       /\ FILE_LENGTH' # FILE_LENGTH => (InitLengthStep \/ FileEventsHandled)]_vars

\* A MODIFY event has raised the cell above the value that a handshake read from it.
C21_Witness ==
    /\ FILE_LENGTH = MaxFile /\ wakeLen = MaxFile
    /\ \E k \in Conns : InRegistry(k) /\ hdr[k] < 0 /\ initOff[k] = 0

\* C22: wait_for_file returns a handle only for a path that opened as a regular
\* file; it ends the process with an error exactly for a path that is no regular
\* file or that fails to open for another reason than not-found; while the path does
\* not exist it neither returns nor fails; and once the regular file is there it
\* returns.
C22_FileAcquisition ==
    /\ [][(mainPc = "wait_for_file" /\ mainPc' # "wait_for_file") => fstate = "present"]_vars
    /\ [][(mainPc = "wait_for_file" /\ exitCode' # exitCode)
             => (fstate \in {"special", "denied"} /\ exitCode' = 1)]_vars
    /\ []((mainPc = "wait_for_file" /\ fstate = "absent") => Running)
    /\ []((mainPc = "wait_for_file" /\ ENABLED OpenFail) => ~ENABLED OpenFile)
    /\ (fstate = "present") ~> (mainPc # "wait_for_file")

\* wait_for_file has failed on a path that is not a regular file, a client waiting.
C22_Witness ==
    /\ mainPc = "wait_for_file" /\ fstate = "special" /\ exitCode = 1
    /\ InRegistry(1)

\* C23: one update_client requests min(length - offset, CHUNK_SIZE) bytes when the
\* length is above the offset and makes no request otherwise; it sends at most
\* CHUNK_SIZE bytes, none when the length is not above the offset; and the offset
\* afterwards is the offset before plus the number of bytes transferred.
C23_ChunkBound ==
    (call.fn = "update_client" /\ ret # NoRet) =>
        /\ ret.requested = IF call.len > call.offset
                           THEN Min(call.len - call.offset, CHUNK_SIZE) ELSE 0
        /\ ret.n <= ret.requested /\ ret.n <= CHUNK_SIZE
        /\ call.len <= call.offset => ret.n = 0
        /\ ret.offset = call.offset + ret.n

\* A whole chunk was sent of a file that has more than a chunk to send.
C23_Witness ==
    /\ call.fn = "update_client" /\ call.len - call.offset > CHUNK_SIZE
    /\ ret # NoRet /\ ret.st = "ok" /\ ret.n = CHUNK_SIZE

\* C28: decoding the encoding of a tag gives the tag back, for every kind of tag and
\* every client id from 0 to 65535; and two different tags have different encodings.
C28_TagsRoundTrip ==
    /\ (call.fn = "user_data" /\ ret # NoRet)
          => ret = [st |-> "ok", kind |-> call.kind, id |-> call.id]
    /\ \A s \in Tags : \A t \in Tags :
          UserDataInto(s.kind, s.id) = UserDataInto(t.kind, t.id) => s = t

\* A fill or a drain has been issued for connection k and has not run yet, or its
\* fill and drain pair is in flight.
RequestIssued(k) ==
    InRegistry(k) /\ (CLIENTS[cport[k]].in_flight \/ fills[k] # <<>> \/ drains[k] > 0)

\* Connection k is in the registry and nothing has been issued for it yet.
Unserved(k) ==
    /\ InRegistry(k) /\ Idle(CLIENTS[cport[k]])
    /\ fills[k] = <<>> /\ drains[k] = 0 /\ pipe[k] = <<>> /\ out[k] = <<>>

\* C24: once the run loop has started, every client that has been inserted with its
\* offset below the length in the cell, and for which nothing has been issued yet,
\* eventually has a fill and drain issued for it, at whatever point of the loop its
\* insertion and its eventfd write fall.
C24_NoLostWakeup ==
    \A k \in Conns :
        (Unserved(k) /\ Watching /\ CLIENTS[cport[k]].offset < FILE_LENGTH)
           ~> RequestIssued(k)

\* A client was inserted while the loop was blocked with nothing to wake it, and its
\* eventfd write is still to come.
C24_Witness ==
    \E k \in Conns :
        /\ cstate[k] = "inserted" /\ CLIENTS[cport[k]].offset < FILE_LENGTH
        /\ mainPc = "wait" /\ cq = <<>> /\ Len(file) = FILE_LENGTH
        /\ ~CLIENTS[cport[k]].in_flight

\* C25: a handshake on a connection whose peer sent no newline (its bytes end with the
\* end of the stream) closes the connection and inserts nothing into the registry.
C25_HeaderNeedsNewline ==
    [][\A k \in Conns :
         (HandshakeStep(k) /\ \A i \in 1..Len(sent[k]) : sent[k][i] # "\n")
            => (cstate'[k] = "rejected" /\ CLIENTS' = CLIENTS)]_vars

\* C26: while a fill or a drain of a registered client is submitted and has not
\* completed, the client's in_flight is true; and no client has more than one drain
\* outstanding.
C26_InFlightTracksRequests ==
    \A k \in Conns :
        /\ drains[k] <= 1
        /\ (InRegistry(k) /\ (fills[k] # <<>> \/ drains[k] > 0))
              => CLIENTS[cport[k]].in_flight

\* No fill of connection k is waiting to run, and no fill or drain completion tagged
\* with its id is waiting to be handled.
Settled(k) ==
    /\ fills[k] = <<>>
    /\ \A i \in 1..Len(batch \o cq) :
          ~((batch \o cq)[i].ud \in {"FillPipe", "DrainPipe"} /\ (batch \o cq)[i].id = cport[k])

\* C27: for every registered client whose completions have all been handled,
\* bytes_in_pipe is the number of bytes in its pipe, and the pipe holds the bytes of
\* the file from offset up to offset + bytes_in_pipe; the subtraction at a drain
\* completion never underflows; and a fill is issued only for a client whose
\* bytes_in_pipe is 0.
C27_PipeAccounting ==
    /\ [](\A k \in Conns :
            (InRegistry(k) /\ Settled(k)) =>
               /\ CLIENTS[cport[k]].bytes_in_pipe = Len(pipe[k])
               /\ pipe[k] = FileRange(CLIENTS[cport[k]].offset,
                                      CLIENTS[cport[k]].offset + CLIENTS[cport[k]].bytes_in_pipe))
    /\ [][\A p \in DOMAIN CLIENTS :
            DrainHandled(p) => CLIENTS[p].bytes_in_pipe >= Head(batch).res]_vars
    /\ [][IssueStep =>
            \A p \in DOMAIN CLIENTS :
               ReqFor(CLIENTS[p], LoadFileLength) = "fill" => CLIENTS[p].bytes_in_pipe = 0]_vars

\* No inotify event is queued and no inotify completion awaits handling.
NoPendingEvent ==
    /\ inoq = <<>>
    /\ \A i \in 1..Len(batch \o cq) : (batch \o cq)[i].ud # "Inotify"

\* C29: while the file is in place and only appended to, whenever the watch exists
\* and the event loop has no unprocessed inotify event, the file-length cell equals
\* the length of the file; bytes appended between the initial length read and
\* add_watch included.
C29_NoStaleLength ==
    (Watching /\ fstate = "present" /\ NoPendingEvent) => FILE_LENGTH = Len(file)

\* C30: every fill that is submitted reads from a position strictly below the end
\* of the file, and every fill that completes successfully has copied at least one
\* byte, so the assertion n_copied != 0 in the fill completion arm never fails.
C30_FillCopiesSomething ==
    /\ \A k \in Conns : \A i \in 1..Len(fills[k]) : fills[k][i] < Len(file)
    /\ \A i \in 1..Len(batch \o cq) :
          ((batch \o cq)[i].ud = "FillPipe" /\ (batch \o cq)[i].ok) => (batch \o cq)[i].res # 0

\* A fill that copied as much as the pipe holds is about to be handled, for a
\* client that was caught up before the file grew.
C30_Witness ==
    /\ mainPc = "handle" /\ batch # <<>>
    /\ Head(batch).ud = "FillPipe" /\ Head(batch).ok /\ Head(batch).res = PipeCap
    /\ Head(batch).id \in DOMAIN CLIENTS
    /\ CLIENTS[Head(batch).id].in_flight
    /\ FILE_LENGTH = MaxFile

\* The 1-based positions of the delimiters of data, which are the 0-based offsets
\* of the bytes after them.
DelimPositions(data) == {i \in 1..Len(data) : data[i] = "\n"}

\* C37: with len delimiters in the file, lookup(n) returns Some for every n with
\* -len <= n <= len and never panics; lookup(0) is 0; for n > 0 the offset is that of
\* the byte after the n-th delimiter; and it returns None exactly when n > len or
\* n < -len.
C37_LookupTotal ==
    (call.fn = "lookup" /\ ret # NoRet) =>
        LET len == Cardinality(DelimPositions(call.data))
        IN  /\ ret.st # "panic"
            /\ (0 - len <= call.n /\ call.n <= len) <=> ret.st = "some"
            /\ (call.n > len \/ call.n < 0 - len) <=> ret.st = "none"
            /\ call.n = 0 => ret.off = 0
            /\ (0 < call.n /\ call.n <= len) =>
                  /\ ret.off \in DelimPositions(call.data)
                  /\ Cardinality({i \in DelimPositions(call.data) : i <= ret.off}) = call.n

\* handle_all_dirty returns Ok.
ReturnsOk == poolPc = "dirty" /\ poolPc' = "idle" /\ poolRet' = "Ok"

\* Client c is caught up with its file.
CaughtUp(c) == c \in DOMAIN clients /\ clients[c].offset >= flen[clients[c].fid]

\* C31: handle_all_dirty terminates (the files do not grow while it runs), and when
\* it returns Ok the dirty queue is empty and every client that was dirty at the
\* call is caught up with its file, was last refused by its socket, or has been
\* deregistered because it hung up.
C31_HandleAllDirtyTerminates ==
    /\ [][ReturnsOk =>
            /\ dirty_clients = <<>> /\ dirty_clients' = <<>>
            /\ \A c \in dirtyAtCall :
                  \/ CaughtUp(c)
                  \/ c \in DOMAIN clients /\ lastOutcome[c] = "refused"
                  \/ c \notin DOMAIN clients /\ lastOutcome[c] = "hup"]_vars
    /\ (poolPc = "dirty") ~> (poolPc = "idle")

\* handle_all_dirty is about to return Ok after it sent one client more than two
\* chunks and deregistered another that had hung up.
C31_Witness ==
    /\ poolPc = "dirty" /\ dirty_clients = <<>> /\ dirtyAtCall = ClientIds
    /\ \E c \in ClientIds : CaughtUp(c) /\ clients[c].offset > 2 * CHUNK_SIZE
                             /\ lastOutcome[c] = "sent"
    /\ \E c \in ClientIds : c \notin DOMAIN clients /\ lastOutcome[c] = "hup"

\* The loop of handle_all_dirty sends bytes to client c, which stays registered.
SendStep(c) ==
    /\ poolPc = "dirty" /\ dirty_clients # <<>> /\ Head(dirty_clients) = c
    /\ c \in DOMAIN clients /\ c \in DOMAIN clients'
    /\ clients'[c].offset > clients[c].offset

\* The 1-based position of the first occurrence of id c in queue q, 0 if there is none.
FirstAt(q, c) ==
    IF c \in Ids(q) THEN CHOOSE i \in 1..Len(q) : q[i] = c /\ \A j \in 1..(i - 1) : q[j] # c
    ELSE 0

\* C32: a client that still has more than CHUNK_SIZE bytes waiting after a send is
\* marked dirty again at the back of the queue; every other client that was in the
\* queue at that send comes before the next turn of the client that was sent to;
\* and a client that needed at most CHUNK_SIZE bytes and received them all is not
\* queued again.
C32_RoundRobinChunks ==
    [][\A c \in ClientIds : SendStep(c) =>
          LET waiting == flen[clients[c].fid] - clients[c].offset
              left == flen[clients[c].fid] - clients'[c].offset
              rest == Tail(dirty_clients)
          IN  /\ left > CHUNK_SIZE =>
                    (dirty_clients' # <<>> /\ dirty_clients'[Len(dirty_clients')] = c)
              /\ c \in Ids(dirty_clients') =>
                    \A d \in Ids(rest) \ {c} :
                       FirstAt(dirty_clients', d) < FirstAt(dirty_clients', c)
              /\ (waiting <= CHUNK_SIZE /\ left = 0) => dirty_clients' = rest]_vars

\* The loop of handle_all_dirty handles client c, which has bytes waiting and whose
\* socket is in state sk.
HandleStep(c, sk) ==
    /\ poolPc = "dirty" /\ dirty_clients # <<>> /\ Head(dirty_clients) = c
    /\ Len(dirty_clients') < Len(dirty_clients)
    /\ c \in DOMAIN clients /\ clients[c].fid \in DOMAIN files
    /\ clients[c].sock = sk
    /\ flen[clients[c].fid] > clients[c].offset

C34_DirtyIdsRegistered ==
    \A i \in 1..Len(dirty_clients) : dirty_clients[i] \in DOMAIN clients

\* C35: a client id is in a file's watcher set exactly if the clients map has an
\* entry for it that points to that file; every entry points to a watched file; no
\* watched file has an empty watcher set; when a file leaves the map all of its
\* clients leave, and when the last watcher of a file leaves, the file leaves.
C35_MapsConsistent ==
    /\ [](/\ \A f \in DOMAIN files : \A c \in ClientIds :
                c \in files[f] <=> (c \in DOMAIN clients /\ clients[c].fid = f)
          /\ \A c \in DOMAIN clients : clients[c].fid \in DOMAIN files
          /\ \A f \in DOMAIN files : files[f] # {})
    /\ [][/\ \A f \in DOMAIN files \ DOMAIN files' :
                \A c \in DOMAIN clients' : clients'[c].fid # f
          /\ \A c \in DOMAIN clients \ DOMAIN clients' :
                (clients[c].fid \in DOMAIN files /\ files[clients[c].fid] = {c})
                   => clients[c].fid \notin DOMAIN files']_vars

\* The header parsed from the whole line the peer of nursery client cid sends.
WholeHeader(cid) == HeaderParser(nline[cid]).val

\* C36: however the bytes of a valid header line are split across reads,
\* try_read_header returns None without an error until the line is complete, what it
\* returns as Some is the header parsed from the whole line, and it does return it
\* eventually.
C36_HeaderNeverLost ==
    /\ [](\A cid \in DOMAIN rdr :
             /\ nret[cid].st # "Err"
             /\ nret[cid].st = "Some" => nret[cid].header = WholeHeader(cid))
    /\ \A cid \in NurseryIds :
          (cid \in DOMAIN rdr) ~>
             (cid \in DOMAIN rdr /\ nret[cid].st = "Some" /\ nret[cid].header = WholeHeader(cid))

====
